---- MODULE Spec2Model ----
(***************************************************************************)
(* Model of git-changelog-manager: the changelog directory (draft.md and   *)
(* the <semver>.md version documents), the package manifest version, and   *)
(* the two top-level workflows, ChangelogManager.addToChangelog and        *)
(* ReleaseManager.release (src/lib/ReleaseManager.js).                     *)
(*                                                                         *)
(* A document is the sequence of lines content.split('\n') yields, so a    *)
(* text that ends with a newline has a last element that is the empty      *)
(* line.  A line is a record; its kind k says which text it is:            *)
(*   delim    ---                         version  version: <ver>          *)
(*   date     date: <d>                   tag      tag:<s>[<ver>]          *)
(*   blank    (empty line)                title    # Release <ver>         *)
(*   header   ## **Unreleased**           comment  <!-- New entries ... -->*)
(*   entry    <rendered> <!-- hash:<h> -->                                 *)
(*   bullet   - Release <ver>                                              *)
(***************************************************************************)
EXTENDS Integers, Sequences, FiniteSets, TLC

\* ------------------------------------------------------------- bounds
\* Version components range over 0..MaxComp.
MaxComp == 2
\* Entry lines in the whole directory: an add that would exceed it is not taken.
MaxEntries == 3
\* Number of release cuts in one behaviour.
MaxReleases == 2
\* Number of operations (adds and release cuts) in one behaviour.
MaxOps == 2
\* Entries handed to one updateChangelogFile call applied on its own.
MaxMergeEntries == 2
\* Files in a directory the version functions are applied to on their own.
MaxFiles == 3
\* The characters of a free frontmatter line.
MaxLineLen == 3

\* ------------------------------------------------------------- versions
Comps == 0..MaxComp
VersionSpace == Comps \X Comps \X Comps
NoVer == <<0, 0, 0>>

\* semver.inc(version, type) on a plain major.minor.patch version.
SemverInc(v, type) ==
    CASE type = "major" -> <<v[1] + 1, 0, 0>>
      [] type = "minor" -> <<v[1], v[2] + 1, 0>>
      [] type = "patch" -> <<v[1], v[2], v[3] + 1>>

\* semver precedence: major, then minor, then patch, compared as numbers.
SemverGt(a, b) ==
    \/ a[1] > b[1]
    \/ a[1] = b[1] /\ a[2] > b[2]
    \/ a[1] = b[1] /\ a[2] = b[2] /\ a[3] > b[3]

BumpTypes == {"major", "minor", "patch"}

\* A file name <c1>.<c2>. ... .md is the sequence of its dot-separated
\* components, each a sequence of decimal digits: 1.10.0.md is
\* <<<<1>>, <<1, 0>>, <<0>>>>.
\* String(n) of a version component (below 100 in the model).
Digits(n) == IF n < 10 THEN <<n>> ELSE <<n \div 10, n % 10>>

\* `${version}.md`
FileName(v) == <<Digits(v[1]), Digits(v[2]), Digits(v[3])>>

\* The number a digit sequence denotes.
RECURSIVE NumVal(_)
NumVal(d) ==
    IF Len(d) = 0 THEN 0 ELSE 10 * NumVal(SubSeq(d, 1, Len(d) - 1)) + d[Len(d)]

\* f.match(/^\d+\.\d+\.\d+\.md$/): three components of digits.
MatchesVersionFile(name) == Len(name) = 3 /\ \A i \in 1..3 : Len(name[i]) >= 1

\* semver.parse: null (here NoParse) for a component with a leading zero,
\* else the three numbers.
NoParse == <<>>
semverParse(name) ==
    IF \E i \in 1..3 : Len(name[i]) > 1 /\ name[i][1] = 0 THEN NoParse
    ELSE <<NumVal(name[1]), NumVal(name[2]), NumVal(name[3])>>

\* ------------------------------------------------------------- messages
\* A commit message is a sequence of words; the word "|" is the character
\* | of the text.
MsgFix == <<"fix", "login">>
MsgFeat == <<"add", "export">>
MsgMerge == <<"Merge", "branch", "dev">>
MsgChlog == <<"Updated", "changelog">>
\* The subject docs|Merge branch dev and the text before its |.
MsgPiped == <<"docs", "|", "Merge", "branch", "dev">>
MsgDocs == <<"docs">>
Messages == {MsgFix, MsgFeat, MsgMerge, MsgChlog, MsgPiped, MsgDocs}

\* String.prototype.toLowerCase, word by word.
ToLowerWord(w) ==
    CASE w = "Merge" -> "merge"
      [] w = "Updated" -> "updated"
      [] OTHER -> w

ToLowerCase(m) == [i \in 1..Len(m) |-> ToLowerWord(m[i])]

\* String.prototype.includes for a phrase of words.
Includes(m, phrase) ==
    \E i \in 0..(Len(m) - Len(phrase)) :
        \A j \in 1..Len(phrase) : m[i + j] = phrase[j]

\* String.prototype.startsWith('merge '): the first word is merge and a
\* space (so another word) follows it.
StartsWithMergeSpace(m) == Len(m) >= 2 /\ m[1] = "merge"

\* crypto sha256 digest, first 8 hex characters.  The digest is a function
\* of the message alone; on the messages of the model it has no collision.
createMessageHash(m) ==
    CASE m = MsgFix -> "3f1a9c02"
      [] m = MsgFeat -> "b7d04e15"
      [] m = MsgMerge -> "0c55a1f9"
      [] m = MsgChlog -> "e2917b6d"
      [] m = MsgPiped -> "a40c7d38"
      [] m = MsgDocs -> "5be61f94"
      [] OTHER -> "ffffffff"

\* ------------------------------------------------------------- lines
Line(k, ver, s, m, h) == [k |-> k, ver |-> ver, s |-> s, m |-> m, h |-> h]

Delim == Line("delim", NoVer, "", <<>>, "")
Blank == Line("blank", NoVer, "", <<>>, "")
Header == Line("header", NoVer, "", <<>>, "")
Comment == Line("comment", NoVer, "", <<>>, "")
VersionLine(v) == Line("version", v, "", <<>>, "")
\* date: <d>, with d a calendar date.
DateLine(d) == Line("date", NoVer, d, <<>>, "")
\* tag:<s> with s the text after the colon: "" or " " (an empty value).
TagEmpty(s) == Line("tag", NoVer, s, <<>>, "")
\* tag: v<ver>
TagFilled(v) == Line("tag", v, " v", <<>>, "")
TitleLine(v) == Line("title", v, "", <<>>, "")
BulletLine(v) == Line("bullet", v, "", <<>>, "")
\* `${entry.polished} <!-- hash:${hash} -->`; a rendered text is either
\* "- <message>" (s = "raw") or a line the polisher returned (s names it).
EntryLine(r, h) == Line("entry", NoVer, r.s, r.m, h)

IsEntry(l) == l.k = "entry"

NoFile == <<>>

\* ------------------------------------------------------------- sequences
\* The least element of a set of indices; 0 when the set is empty
\* (the -1 of Array.prototype.findIndex and of an index scan that fails).
FirstIndex(S) == IF S = {} THEN 0 ELSE CHOOSE i \in S : \A j \in S : i <= j

\* Array.prototype.splice(at, 0, ...items) with at the 0-based position,
\* that is: items go in after the first `at` elements.
Splice(seq, at, items) ==
    SubSeq(seq, 1, at) \o items \o SubSeq(seq, at + 1, Len(seq))

\* The one element of a set of one element: a value worked out once.
Once(S) == CHOOSE r \in S : TRUE

\* The entry lines of a document, in order.
Entries(doc) == SelectSeq(doc, IsEntry)

HashCount(doc, h) == Len(SelectSeq(doc, LAMBDA l : IsEntry(l) /\ l.h = h))

\* ------------------------------------------------------------- storage
\* The changelog directory: fs.draft is the text of draft.md (NoFile when
\* it does not exist), fs.versions maps the name of every other .md file
\* of the directory to its text.
DraftPath == [kind |-> "draft", ver |-> NoVer]
\* path.join(changelogDir, `${v}.md`)
VersionPath(v) == [kind |-> "version", ver |-> v]

\* fs.readdir
readdir(fs) == DOMAIN fs.versions

\* The versions v for which <v>.md is in the directory.
VersionFiles(fs) ==
    {semverParse(name) : name \in {f \in readdir(fs) :
                                      MatchesVersionFile(f) /\ semverParse(f) # NoParse}}

Exists(fs, p) ==
    IF p.kind = "draft" THEN fs.draft # NoFile ELSE FileName(p.ver) \in readdir(fs)

ReadFile(fs, p) ==
    IF p.kind = "draft" THEN fs.draft
    ELSE IF FileName(p.ver) \in readdir(fs) THEN fs.versions[FileName(p.ver)]
    ELSE NoFile

WriteFile(fs, p, doc) ==
    IF p.kind = "draft" THEN [fs EXCEPT !.draft = doc]
    ELSE [fs EXCEPT !.versions = (FileName(p.ver) :> doc) @@ fs.versions]

\* A file that is in the directory and cannot be read (fs.readFile
\* rejects): its text is never seen, one line stands for it.
Unreadable == <<Line("unreadable", NoVer, "", <<>>, "")>>
\* fs.readFile resolves.
CanRead(fs, p) == Exists(fs, p) /\ ReadFile(fs, p) # Unreadable

\* fs.unlink of the draft.
UnlinkDraft(fs) == [fs EXCEPT !.draft = NoFile]

\* ------------------------------------------------------------- ChangelogManager
\* getHighestVersion: null (here NoVersion) when no file name matches
\* the pattern; else the first of the parsable ones in descending semver
\* order, which is undefined (here UndefinedVersion) when there is none.
NoVersion == <<>>
UndefinedVersion == <<0>>
\* if (highestVersion)
Truthy(highestVersion) == highestVersion \notin {NoVersion, UndefinedVersion}

\* getHighestVersion without the filter on semver.parse: every file name
\* of the pattern counts, by the numbers its components denote.
NumVersion(f) == <<NumVal(f[1]), NumVal(f[2]), NumVal(f[3])>>
getHighestVersion_NoParseFilter(fs) ==
    LET versionFiles == {f \in readdir(fs) : MatchesVersionFile(f)}
    IN  IF versionFiles = {} THEN NoVersion
        ELSE NumVersion(CHOOSE f \in versionFiles : \A g \in versionFiles :
                            ~SemverGt(NumVersion(g), NumVersion(f)))

getHighestVersion(fs) ==
    LET versionFiles == {f \in readdir(fs) : MatchesVersionFile(f)}
        versions == {f \in versionFiles : semverParse(f) # NoParse}
    IN  IF versionFiles = {} THEN NoVersion
        ELSE IF versions = {} THEN UndefinedVersion
        ELSE semverParse(CHOOSE f \in versions : \A g \in versions :
                             g = f \/ SemverGt(semverParse(f), semverParse(g)))

\* parseFrontmatter: the keys found between the opening --- and the next
\* --- line (or the end of the text when there is none).  The result maps
\* a key to its last line; a document whose first line is not --- gives
\* the empty mapping.
FrontmatterKeys == {"version", "date", "tag"}
FrontmatterEnd(doc) ==
    LET close == FirstIndex({i \in 2..Len(doc) : doc[i] = Delim})
    IN  IF close = 0 THEN Len(doc) + 1 ELSE close

parseFrontmatter(doc) ==
    IF Len(doc) = 0 \/ doc[1] # Delim THEN <<>>
    ELSE LET end == FrontmatterEnd(doc)
             at(key) == {i \in 2..(end - 1) : doc[i].k = key}
             keys == {key \in FrontmatterKeys : at(key) # {}}
         IN  [key \in keys |-> doc[CHOOSE i \in at(key) : \A j \in at(key) : j <= i]]

\* The test of frontmatter.tag with every tag taken as empty.
HasTag_Never(fm) == FALSE

\* frontmatter.tag is truthy: the key is there and its trimmed value is
\* not the empty string.
HasTag(fm) == "tag" \in DOMAIN fm /\ fm["tag"].s \notin {"", " "}

\* detectOpenReleaseFile with the untagged highest version looked at first.
detectOpenReleaseFile_VersionFirst(fs) ==
    LET highestVersion == getHighestVersion(fs)
    IN  IF Truthy(highestVersion)
             /\ ~HasTag(parseFrontmatter(ReadFile(fs, VersionPath(highestVersion))))
        THEN VersionPath(highestVersion)
        ELSE DraftPath

\* detectOpenReleaseFile with every version document looked at: the
\* highest of the untagged ones is returned.
detectOpenReleaseFile_AnyUntagged(fs) ==
    IF Exists(fs, DraftPath) THEN DraftPath
    ELSE LET untagged == {v \in VersionFiles(fs) :
                             ~HasTag(parseFrontmatter(ReadFile(fs, VersionPath(v))))}
         IN  IF untagged # {}
             THEN VersionPath(CHOOSE v \in untagged : \A w \in untagged : ~SemverGt(w, v))
             ELSE DraftPath

\* detectOpenReleaseFile with a tagged highest version document returned
\* as well.
detectOpenReleaseFile_TagIgnored(fs) ==
    IF Exists(fs, DraftPath) THEN DraftPath
    ELSE LET highestVersion == getHighestVersion(fs)
         IN  IF Truthy(highestVersion) THEN VersionPath(highestVersion) ELSE DraftPath

\* detectOpenReleaseFile with the read error of the highest version
\* document thrown on to the caller.
detectOpenReleaseFile_Propagates(fs) ==
    IF Exists(fs, DraftPath) THEN DraftPath
    ELSE LET highestVersion == getHighestVersion(fs)
         IN  IF ~Truthy(highestVersion) THEN DraftPath
             ELSE IF ~CanRead(fs, VersionPath(highestVersion))
             THEN [kind |-> "rejected", ver |-> NoVer]
             ELSE IF ~HasTag(parseFrontmatter(ReadFile(fs, VersionPath(highestVersion))))
             THEN VersionPath(highestVersion)
             ELSE DraftPath

\* detectOpenReleaseFile: fs.access finds the draft, else the highest
\* version document is read, and a read that fails is caught and logged.
detectOpenReleaseFile(fs) ==
    IF Exists(fs, DraftPath) THEN DraftPath
    ELSE Once({IF ~Truthy(highestVersion) THEN DraftPath
               ELSE Once({IF content # Unreadable /\ ~HasTag(parseFrontmatter(content))
                          THEN VersionPath(highestVersion)
                          ELSE DraftPath :
                              content \in {ReadFile(fs, VersionPath(highestVersion))}}) :
                   highestVersion \in {getHighestVersion(fs)}})

\* isMessageAlreadyInChangelog searching for a marker the entry lines do
\* not have (hash:<h> without the space before -->): nothing is found.
isMessageAlreadyInChangelog_OtherMarker(fs, releaseFile, messageHash) ==
    /\ Exists(fs, releaseFile)
    /\ \E i \in 1..Len(ReadFile(fs, releaseFile)) :
           LET l == ReadFile(fs, releaseFile)[i] IN l.k = "marker" /\ l.h = messageHash

\* isMessageAlreadyInChangelog looking through the draft and every version
\* document of the directory.
isMessageAlreadyInChangelog_AnyDocument(fs, releaseFile, messageHash) ==
    \E doc \in {fs.draft} \cup {fs.versions[f] : f \in readdir(fs)} :
        \E i \in 1..Len(doc) : IsEntry(doc[i]) /\ doc[i].h = messageHash

\* isMessageAlreadyInChangelog looking below the Unreleased header only.
isMessageAlreadyInChangelog_UnreleasedOnly(fs, releaseFile, messageHash) ==
    /\ CanRead(fs, releaseFile)
    /\ \E i, j \in 1..Len(ReadFile(fs, releaseFile)) :
           /\ ReadFile(fs, releaseFile)[j] = Header
           /\ j < i
           /\ IsEntry(ReadFile(fs, releaseFile)[i])
           /\ ReadFile(fs, releaseFile)[i].h = messageHash

\* isMessageAlreadyInChangelog: content.includes(`<!-- hash:${h} -->`);
\* a file that cannot be read holds no hash.
isMessageAlreadyInChangelog(fs, releaseFile, messageHash) ==
    /\ CanRead(fs, releaseFile)
    /\ \E i \in 1..Len(ReadFile(fs, releaseFile)) :
           LET l == ReadFile(fs, releaseFile)[i] IN IsEntry(l) /\ l.h = messageHash

\* getNewCommits: the commits of the time range without the changelog
\* update and merge commits.
IsAdministrative(message) ==
    LET msg == ToLowerCase(message)
    IN  \/ Includes(msg, <<"updated", "changelog">>)
        \/ Includes(msg, <<"merge", "pull", "request">>)
        \/ Includes(msg, <<"merge", "branch">>)
        \/ StartsWithMergeSpace(msg)

\* const [hash, message] = line.split('|') on a line <hash>|<subject> of
\* the git log output: the message is the subject up to its first |.
ParseLogLine(subject) ==
    LET bar == FirstIndex({i \in 1..Len(subject) : subject[i] = "|"})
    IN  IF bar = 0 THEN subject ELSE SubSeq(subject, 1, bar - 1)

\* log is the sequence of the subjects of the commits git log prints.
getNewCommits(log) ==
    SelectSeq([i \in 1..Len(log) |-> ParseLogLine(log[i])],
              LAMBDA message : ~IsAdministrative(message))

\* polishCommitMessages.  outcome describes the polisher: key (an API key
\* is configured), err (the call throws: network error, malformed
\* response), n (the number of lines of the response that start "- ").
Raw(message) == [s |-> "raw", m |-> message]
AiText(i) == CASE i = 1 -> "ai1" [] i = 2 -> "ai2" [] i = 3 -> "ai3" [] OTHER -> "ai4"
AiLine(i) == [s |-> AiText(i), m |-> <<>>]
polishCommitMessages(messages, outcome) ==
    IF ~outcome.key \/ Len(messages) = 0 \/ outcome.err
    THEN [i \in 1..Len(messages) |-> Raw(messages[i])]
    ELSE [i \in 1..outcome.n |-> AiLine(i)]

\* getNextVersion with the bump applied to a 0.0.0 start when there is no
\* version document.
getNextVersion_BootstrapBumped(fs, bumpType) ==
    LET highestVersion == getHighestVersion(fs)
    IN  IF Truthy(highestVersion) THEN SemverInc(highestVersion, bumpType)
        ELSE SemverInc(<<0, 0, 0>>, bumpType)

\* getNextVersion
getNextVersion(fs, bumpType) ==
    LET highestVersion == getHighestVersion(fs)
    IN  IF Truthy(highestVersion) THEN SemverInc(highestVersion, bumpType)
        ELSE <<0, 1, 0>>

\* The text createUnreleasedFile and startNewDraft write.
DraftTemplate(nextVersion, dateStr) ==
    << Delim, VersionLine(nextVersion), DateLine(dateStr), TagEmpty(" "), Delim,
       Blank, TitleLine(nextVersion), Blank, Header, Blank, Comment, Blank, Blank >>

\* createUnreleasedFile with the minor increment as the next version.
createUnreleasedFile_Minor(fs, filePath, now) ==
    WriteFile(fs, filePath, DraftTemplate(getNextVersion(fs, "minor"), now))

\* createUnreleasedFile
createUnreleasedFile(fs, filePath, now) ==
    WriteFile(fs, filePath, DraftTemplate(getNextVersion(fs, "patch"), now))

\* The header lookup with unreleasedIndex on the empty line after a header
\* put in below the title.
WithHeader_AfterBlank(lines) ==
    LET found == FirstIndex({i \in 1..Len(lines) : lines[i].k = "header"})
        title == FirstIndex({i \in 1..Len(lines) : lines[i].k = "title"})
    IN  IF found # 0 THEN [lines |-> lines, unreleasedIndex |-> found - 1]
        ELSE IF title # 0
        THEN [lines |-> Splice(lines, title, <<Blank, Header, Blank>>),
              unreleasedIndex |-> (title - 1) + 3]
        ELSE [lines |-> lines \o <<Blank, Header, Blank>>,
              unreleasedIndex |-> Len(lines) + 3 - 1]

\* updateChangelogFile, the lines after the header lookup: the document
\* with a header ensured and the 0-based index of the header line.
WithHeader(lines) ==
    LET found == FirstIndex({i \in 1..Len(lines) : lines[i].k = "header"})
        title == FirstIndex({i \in 1..Len(lines) : lines[i].k = "title"})
    IN  IF found # 0 THEN [lines |-> lines, unreleasedIndex |-> found - 1]
        ELSE IF title # 0
        THEN [lines |-> Splice(lines, title, <<Blank, Header, Blank>>),
              unreleasedIndex |-> (title - 1) + 2]
        ELSE [lines |-> lines \o <<Blank, Header, Blank>>,
              unreleasedIndex |-> Len(lines) + 3 - 1]

\* updateChangelogFile with splice(insertIndex, newLines.length, ...):
\* the new lines replace as many old ones.
updateChangelogFile_Replaces(fs, filePath, newEntries, now) ==
    LET fs1 == IF Exists(fs, filePath) THEN fs ELSE createUnreleasedFile(fs, filePath, now)
        w == WithHeader(ReadFile(fs1, filePath))
        insertIndex == w.unreleasedIndex + 1
        newLines == [i \in 1..Len(newEntries) |->
                        EntryLine(newEntries[i].polished, createMessageHash(newEntries[i].message))]
    IN  WriteFile(fs1, filePath,
                  SubSeq(w.lines, 1, insertIndex) \o newLines
                  \o SubSeq(w.lines, insertIndex + Len(newLines) + 1, Len(w.lines)))

\* updateChangelogFile with every entry spliced in at insertIndex by
\* itself, one after the other, which reverses the batch.
updateChangelogFile_OneByOne(fs, filePath, newEntries, now) ==
    LET fs1 == IF Exists(fs, filePath) THEN fs ELSE createUnreleasedFile(fs, filePath, now)
        w == WithHeader(ReadFile(fs1, filePath))
        insertIndex == w.unreleasedIndex + 1
        newLines == [i \in 1..Len(newEntries) |->
                        LET e == newEntries[Len(newEntries) + 1 - i]
                        IN  EntryLine(e.polished, createMessageHash(e.message))]
    IN  WriteFile(fs1, filePath, Splice(w.lines, insertIndex, newLines))

\* updateChangelogFile with the date line of the frontmatter set to the
\* day of the update.
updateChangelogFile_TouchesDate(fs, filePath, newEntries, now) ==
    LET fs1 == IF CanRead(fs, filePath) THEN fs ELSE createUnreleasedFile(fs, filePath, now)
        w == WithHeader(ReadFile(fs1, filePath))
        insertIndex == w.unreleasedIndex + 1
        newLines == [i \in 1..Len(newEntries) |->
                        EntryLine(newEntries[i].polished, createMessageHash(newEntries[i].message))]
        merged == Splice(w.lines, insertIndex, newLines)
    IN  WriteFile(fs1, filePath,
                  [i \in 1..Len(merged) |->
                      IF merged[i].k = "date" THEN DateLine(now) ELSE merged[i]])

\* updateChangelogFile: newEntries is a sequence of [message, polished].
\* A file that is missing or cannot be read is created first.
updateChangelogFile(fs, filePath, newEntries, now) ==
    LET fs1 == IF CanRead(fs, filePath) THEN fs ELSE createUnreleasedFile(fs, filePath, now)
        w == WithHeader(ReadFile(fs1, filePath))
        insertIndex == w.unreleasedIndex + 1
        newLines == [i \in 1..Len(newEntries) |->
                        EntryLine(newEntries[i].polished, createMessageHash(newEntries[i].message))]
    IN  WriteFile(fs1, filePath, Splice(w.lines, insertIndex, newLines))

\* addToChangelog.  customMessage is NoMessage when options.customMessage
\* is not given; log is what git log returns for the time range.  The
\* result holds the directory afterwards, the resolved release file, the
\* number of entries handed to updateChangelogFile and whether a write
\* happened.
NoMessage == <<>>
OrRaw(polished, index, message) ==
    IF index <= Len(polished) THEN polished[index] ELSE Raw(message)

\* The messages addToChangelog hands to the polisher: the custom message
\* if its hash is not in the release file, else the commits whose hash is
\* not in it; empty when addToChangelog returns before polishing.
MessagesToAdd(fs, customMessage, log) ==
    LET releaseFile == detectOpenReleaseFile(fs)
        isNew(message) ==
            ~isMessageAlreadyInChangelog(fs, releaseFile, createMessageHash(message))
    IN  IF customMessage # NoMessage
        THEN IF isNew(customMessage) THEN <<customMessage>> ELSE <<>>
        ELSE SelectSeq(getNewCommits(log), isNew)

\* addToChangelog with the entries made from the lines the polisher
\* returned (polished.map instead of filteredCommits.map).
addToChangelog_PolishedOnly(fs, customMessage, log, outcome, now) ==
    LET releaseFile == detectOpenReleaseFile(fs)
        messages == MessagesToAdd(fs, customMessage, log)
        polished == polishCommitMessages(messages, outcome)
        count == IF Len(polished) < Len(messages) THEN Len(polished) ELSE Len(messages)
        newEntries == [i \in 1..count |-> [message |-> messages[i], polished |-> polished[i]]]
    IN  IF Len(messages) = 0
        THEN [fs |-> fs, releaseFile |-> releaseFile, inserted |-> 0, wrote |-> FALSE]
        ELSE [fs |-> updateChangelogFile(fs, releaseFile, newEntries, now),
              releaseFile |-> releaseFile, inserted |-> Len(newEntries), wrote |-> TRUE]

addToChangelog(fs, customMessage, log, outcome, now) ==
    LET releaseFile == detectOpenReleaseFile(fs)
        messages == MessagesToAdd(fs, customMessage, log)
        polished == polishCommitMessages(messages, outcome)
        newEntries == [i \in 1..Len(messages) |->
                          [message |-> messages[i], polished |-> OrRaw(polished, i, messages[i])]]
    IN  IF Len(messages) = 0
        THEN [fs |-> fs, releaseFile |-> releaseFile, inserted |-> 0, wrote |-> FALSE]
        ELSE [fs |-> updateChangelogFile(fs, releaseFile, newEntries, now),
              releaseFile |-> releaseFile, inserted |-> Len(newEntries), wrote |-> TRUE]

\* hasPendingCommits over every commit of the log, the changelog update
\* and merge commits included.
hasPendingCommits_Unfiltered(fs, log) ==
    LET releaseFile == detectOpenReleaseFile(fs)
    IN  \E i \in 1..Len(log) :
            ~isMessageAlreadyInChangelog(fs, releaseFile, createMessageHash(log[i]))

\* hasPendingCommits
hasPendingCommits(fs, log) ==
    LET releaseFile == detectOpenReleaseFile(fs)
    IN  \E i \in 1..Len(getNewCommits(log)) :
            ~isMessageAlreadyInChangelog(fs, releaseFile, createMessageHash(getNewCommits(log)[i]))

\* ------------------------------------------------------------- ReleaseManager
\* bumpVersion with the bump type ignored.
bumpVersion_AlwaysPatch(version, type) == SemverInc(version, "patch")

\* bumpVersion
bumpVersion(version, type) == SemverInc(version, type)

\* The callback with the tag line never rewritten.
UpdatedLine_KeepsTag(line, newVersion, now) ==
    IF line.k = "version" THEN VersionLine(newVersion)
    ELSE IF line.k = "date" THEN DateLine(now)
    ELSE line

\* The callback with every tag line rewritten, empty or not.
UpdatedLine_AlwaysTags(line, newVersion, now) ==
    IF line.k = "version" THEN VersionLine(newVersion)
    ELSE IF line.k = "date" THEN DateLine(now)
    ELSE IF line.k = "tag" THEN TagFilled(newVersion)
    ELSE line

\* renameDraftFile, the callback of the frontmatter replace: one line of
\* the block.
UpdatedLine(line, newVersion, now) ==
    IF line.k = "version" THEN VersionLine(newVersion)
    ELSE IF line.k = "date" THEN DateLine(now)
    ELSE IF line.k = "tag" /\ line.s \in {"", " "} THEN TagFilled(newVersion)
    ELSE line

\* content.replace(/^---\n([\s\S]*?)---\n/, ...): the block runs from the
\* first line, which must be ---, to the first later --- that a newline
\* follows.  The captured text ends with a newline, so its split has a last
\* empty element, which the join keeps before the closing ---.
UpdateFrontmatter(content, newVersion, now) ==
    LET close == FirstIndex({j \in 2..(Len(content) - 1) : content[j] = Delim})
    IN  IF Len(content) < 2 \/ content[1] # Delim \/ close = 0 THEN content
        ELSE <<Delim>>
             \o [i \in 1..(close - 2) |-> UpdatedLine(content[i + 1], newVersion, now)]
             \o <<Blank, Delim>>
             \o SubSeq(content, close + 1, Len(content))

\* content.replace(/## \*\*Unreleased\*\*\n\n/, ''): the first header line
\* that an empty line and a further newline follow goes, with that empty
\* line.
RemoveUnreleasedHeader(content) ==
    LET at == FirstIndex({i \in 1..(Len(content) - 2) :
                              content[i] = Header /\ content[i + 1] = Blank})
    IN  IF at = 0 THEN content
        ELSE SubSeq(content, 1, at - 1) \o SubSeq(content, at + 2, Len(content))

\* basicContent with the tag left empty.
BasicContent_Untagged(newVersion, now) ==
    << Delim, VersionLine(newVersion), DateLine(now), TagEmpty(" "), Delim,
       Blank, TitleLine(newVersion), Blank, BulletLine(newVersion), Blank >>

\* basicContent
BasicContent(newVersion, now) ==
    << Delim, VersionLine(newVersion), DateLine(now), TagFilled(newVersion), Delim,
       Blank, TitleLine(newVersion), Blank, BulletLine(newVersion), Blank >>

\* A package.json that cannot be read or parsed.
NoManifest == <<>>
\* getCurrentVersion: 0.0.0 when package.json cannot be read.
getCurrentVersion(pkg) == IF pkg = NoManifest THEN <<0, 0, 0>> ELSE pkg

\* updatePackageJson: the failure of the read or of the write is caught and
\* warned about; the manifest then keeps its version.
updatePackageJson(pkg, newVersion, manifestOk) ==
    IF manifestOk /\ pkg # NoManifest THEN newVersion ELSE pkg

\* renameDraftFile with the catch block around its last write as well:
\* nothing is thrown when the release file cannot be written.
renameDraftFile_SwallowsError(fs, newVersion, now, io) ==
    IF ~io.writeOk THEN [fs |-> fs, threw |-> FALSE]
    ELSE IF ~Exists(fs, DraftPath) \/ ~io.readOk
    THEN [fs |-> WriteFile(fs, VersionPath(newVersion), BasicContent(newVersion, now)),
          threw |-> FALSE]
    ELSE [fs |-> UnlinkDraft(WriteFile(fs, VersionPath(newVersion),
                     RemoveUnreleasedHeader(
                         UpdateFrontmatter(ReadFile(fs, DraftPath), newVersion, now)))),
          threw |-> FALSE]

\* renameDraftFile.  io.readOk: the draft, when there is one, can be read;
\* io.writeOk: files can be written to the changelog directory;
\* io.unlinkOk: the draft can be removed.  try: read the draft,
\* write the transformed text to <newVersion>.md, unlink the draft; catch
\* (the draft cannot be read, or the write or the unlink failed): write
\* the basic release file to <newVersion>.md, outside any try: its failure
\* is the failure of renameDraftFile.
renameDraftFile(fs, newVersion, now, io) ==
    LET newFilePath == VersionPath(newVersion)
        updated == RemoveUnreleasedHeader(
                       UpdateFrontmatter(ReadFile(fs, DraftPath), newVersion, now))
    IN  IF ~io.writeOk THEN [fs |-> fs, threw |-> TRUE]
        ELSE IF ~Exists(fs, DraftPath) \/ ~io.readOk
        THEN [fs |-> WriteFile(fs, newFilePath, BasicContent(newVersion, now)),
              threw |-> FALSE]
        ELSE IF ~io.unlinkOk
        THEN [fs |-> WriteFile(WriteFile(fs, newFilePath, updated), newFilePath,
                               BasicContent(newVersion, now)),
              threw |-> FALSE]
        ELSE [fs |-> UnlinkDraft(WriteFile(fs, newFilePath, updated)), threw |-> FALSE]

\* The git repository as release sees it: the number of commits made on
\* top of the HEAD found, the commit the tag v<newVersion> points at (its
\* number, NoTag without tag), what the release commit holds (the manifest
\* version and the changelog directory), and whether it was pushed.
NoTag == -1
NoTree == [pkg |-> NoVer, fs |-> [draft |-> NoFile, versions |-> <<>>]]
GitStart == [head |-> 0, tagAt |-> NoTag, tree |-> NoTree, pushed |-> FALSE]

\* createGitTag: git tag v<version> names the HEAD of that moment; its
\* failure is caught and warned about.
createGitTag(git, tagOk) ==
    IF tagOk THEN [git EXCEPT !.tagAt = git.head] ELSE git

\* commitAndPush: git add ., git commit, git push, git push --tags; the
\* failure of any of them is caught and warned about, and the commands
\* after it do not run.
commitAndPush(git, pkg, fs, commitOk, pushOk) ==
    IF ~commitOk THEN git
    ELSE [git EXCEPT !.head = git.head + 1, !.tree = [pkg |-> pkg, fs |-> fs],
                     !.pushed = pushOk]

\* createGithubRelease with the guard on the configuration dropped: the
\* request is made whatever is configured.
createGithubRelease_NoGuard(configured, responseOk) ==
    IF responseOk THEN "created" ELSE "rejected"

\* createGithubRelease: "skipped" when the token or the repository is not
\* configured, before any request is made; otherwise the promise of the
\* request is returned from inside the try block without being awaited
\* there, so its rejection is the rejection of createGithubRelease.
createGithubRelease(configured, responseOk) ==
    IF ~configured THEN "skipped"
    ELSE IF responseOk THEN "created"
    ELSE "rejected"

\* startNewDraft with the minor increment for the fresh draft.
startNewDraft_Minor(fs, now) ==
    WriteFile(fs, DraftPath, DraftTemplate(getNextVersion(fs, "minor"), now))

\* startNewDraft
startNewDraft(fs, now) ==
    WriteFile(fs, DraftPath, DraftTemplate(getNextVersion(fs, "patch"), now))


\* The progress of release: the manifest version, the changelog directory,
\* the repository, what the GitHub step did, the steps entered so far and
\* whether one of them threw.  A step is entered unless an earlier one
\* threw.
Entered(st, step) == [st EXCEPT !.steps = Append(st.steps, step)]

StepUpdatePackageJson(st, newVersion, env) ==
    IF st.threw THEN st
    ELSE [Entered(st, "updatePackageJson") EXCEPT
             !.pkg = updatePackageJson(st.pkg, newVersion, env.manifestOk)]

StepUpdateAdditionalFiles(st, newVersion, env) ==
    IF st.threw THEN st ELSE Entered(st, "updateAdditionalFiles")

StepRenameDraftFile(st, newVersion, env, now) ==
    IF st.threw THEN st
    ELSE Once({[Entered(st, "renameDraftFile") EXCEPT
                   !.fs = renamed.fs, !.threw = renamed.threw] :
               renamed \in {renameDraftFile(st.fs, newVersion, now, env)}})

StepCreateGitTag(st, newVersion, env) ==
    IF st.threw THEN st
    ELSE [Entered(st, "createGitTag") EXCEPT !.git = createGitTag(st.git, env.tagOk)]

StepCommitAndPush(st, newVersion, env) ==
    IF st.threw THEN st
    ELSE [Entered(st, "commitAndPush") EXCEPT
             !.git = commitAndPush(st.git, st.pkg, st.fs, env.commitOk, env.pushOk)]

StepCreateGithubRelease(st, newVersion, env) ==
    IF st.threw THEN st
    ELSE [Entered(st, "createGithubRelease") EXCEPT
             !.gh = createGithubRelease(env.configured, env.responseOk),
             !.threw = (createGithubRelease(env.configured, env.responseOk) = "rejected")]

StepStartNewDraft(st, now) ==
    IF st.threw THEN st
    ELSE [Entered(st, "startNewDraft") EXCEPT !.fs = startNewDraft(st.fs, now)]

\* What release leaves and returns.
Outcome(st, newVersion) ==
    [pkg |-> st.pkg, fs |-> st.fs, newVersion |-> newVersion, git |-> st.git,
     gh |-> st.gh, steps |-> st.steps,
     result |-> IF st.threw THEN "rejected" ELSE "resolved"]

\* release with the tag created after the release commit.
release_TagAfterCommit(pkg, fs, bumpType, env, now) ==
    LET newVersion == bumpVersion(getCurrentVersion(pkg), bumpType)
        s0 == [pkg |-> pkg, fs |-> fs, git |-> GitStart, gh |-> "",
               steps |-> <<>>, threw |-> FALSE]
        s1 == Once({StepUpdatePackageJson(s, newVersion, env) : s \in {s0}})
        s2 == Once({StepUpdateAdditionalFiles(s, newVersion, env) : s \in {s1}})
        s3 == Once({StepRenameDraftFile(s, newVersion, env, now) : s \in {s2}})
        s4 == Once({StepCommitAndPush(s, newVersion, env) : s \in {s3}})
        s5 == Once({StepCreateGitTag(s, newVersion, env) : s \in {s4}})
        s6 == Once({StepCreateGithubRelease(s, newVersion, env) : s \in {s5}})
        s7 == Once({StepStartNewDraft(s, now) : s \in {s6}})
    IN  Once({Outcome(s, newVersion) : s \in {s7}})

\* release.  env: manifestOk (package.json can be rewritten), readOk,
\* writeOk, unlinkOk (the changelog directory), tagOk, commitOk, pushOk (git),
\* configured, responseOk (GitHub).  The result holds the manifest version,
\* the directory and the repository afterwards, the steps entered, what
\* the GitHub step did, and whether the promise resolved: the catch of
\* release logs and rethrows, so a step that throws is the last one.
release(pkg, fs, bumpType, env, now) ==
    LET currentVersion == getCurrentVersion(pkg)
        newVersion == bumpVersion(currentVersion, bumpType)
        s0 == [pkg |-> pkg, fs |-> fs, git |-> GitStart, gh |-> "",
               steps |-> <<>>, threw |-> FALSE]
        s1 == Once({StepUpdatePackageJson(s, newVersion, env) : s \in {s0}})
        s2 == Once({StepUpdateAdditionalFiles(s, newVersion, env) : s \in {s1}})
        s3 == Once({StepRenameDraftFile(s, newVersion, env, now) : s \in {s2}})
        s4 == Once({StepCreateGitTag(s, newVersion, env) : s \in {s3}})
        s5 == Once({StepCommitAndPush(s, newVersion, env) : s \in {s4}})
        s6 == Once({StepCreateGithubRelease(s, newVersion, env) : s \in {s5}})
        s7 == Once({StepStartNewDraft(s, now) : s \in {s6}})
    IN  Once({Outcome(s, newVersion) : s \in {s7}})

\* ------------------------------------------------------------- changelog-release
\* validTypes.includes(options.type) with an invalid type replaced by the
\* default of the option.
ValidatedType_DefaultsToPatch(type) ==
    IF type \in {"major", "minor", "patch"} THEN type ELSE "patch"

\* The bump type after the validation of --type: Invalid when the command
\* reports it and exits with status 1.
Invalid == ""
ValidatedType(type) ==
    IF type \in {"major", "minor", "patch"} THEN type ELSE Invalid

\* prompt: answer.trim().toLowerCase() of what was typed.
TrimLower(typed) ==
    CASE typed = " Yes " -> "yes"
      [] typed = "Y" -> "y"
      [] OTHER -> typed

\* answer === 'y' || answer === 'yes'
SaysYes(typed) == TrimLower(typed) \in {"y", "yes"}

\* A command that has not started a release.
NoCut ==
    [newVersion |-> NoVer, git |-> GitStart, gh |-> "", steps |-> <<>>, result |-> ""]

\* What the command leaves when release has run from the directory mid.
Finished(r, phases, hasPending, mid) ==
    [pkg |-> r.pkg, fs |-> r.fs, exit |-> IF r.result = "resolved" THEN 0 ELSE 1,
     phases |-> phases, pending |-> hasPending, mid |-> mid,
     cut |-> [newVersion |-> r.newVersion, git |-> r.git, gh |-> r.gh,
              steps |-> r.steps, result |-> r.result]]

\* What the command leaves when it exits before release is called.
Exited(pkg, fs, phases, hasPending) ==
    [pkg |-> pkg, fs |-> fs, exit |-> 1, phases |-> phases, pending |-> hasPending,
     mid |-> fs, cut |-> NoCut]

\* main with addToChangelog run after release.
releaseCommand_AddsAfterCut(pkg, fs, options, io, now) ==
    LET bumpType == ValidatedType(options.type)
        hasPending == ~options.skipPendingCheck /\ hasPendingCommits(fs, io.log)
        adds == hasPending /\ SaysYes(io.answer)
        checked == <<"validate">>
                   \o (IF options.skipPendingCheck THEN <<>> ELSE <<"hasPendingCommits">>)
                   \o (IF hasPending THEN <<"prompt">> ELSE <<>>)
                   \o <<"release">>
                   \o (IF adds THEN <<"addToChangelog">> ELSE <<>>)
    IN  IF bumpType = Invalid THEN Exited(pkg, fs, <<"validate">>, FALSE)
        ELSE Once({Finished([r EXCEPT !.fs =
                                 IF adds /\ io.addOk /\ r.result = "resolved"
                                 THEN addToChangelog(r.fs, NoMessage, io.log, io.outcome,
                                                     now).fs
                                 ELSE r.fs],
                             checked, hasPending, fs) :
                   r \in {release(pkg, fs, bumpType, io.env, now)}})

\* The changelog-release command: the validation of --type, then main():
\* the pending check unless --skip-pending-check, the prompt when commits
\* are pending, addToChangelog() on the answer yes, release(options.type);
\* what is thrown on the way is reported and the exit status is 1.
\* options: type, skipPendingCheck.  io: log (git log), answer (what is
\* typed at the prompt), outcome (the polisher), addOk (addToChangelog
\* does not throw), env (what release meets).  phases: what ran, in
\* order; mid: the changelog directory when release starts.
releaseCommand(pkg, fs, options, io, now) ==
    LET bumpType == ValidatedType(options.type)
        hasPending == ~options.skipPendingCheck /\ hasPendingCommits(fs, io.log)
        adds == hasPending /\ SaysYes(io.answer)
        checked == <<"validate">>
                   \o (IF options.skipPendingCheck THEN <<>> ELSE <<"hasPendingCommits">>)
                   \o (IF hasPending THEN <<"prompt">> ELSE <<>>)
                   \o (IF adds THEN <<"addToChangelog">> ELSE <<>>)
    IN  IF bumpType = Invalid THEN Exited(pkg, fs, <<"validate">>, FALSE)
        ELSE IF adds /\ ~io.addOk THEN Exited(pkg, fs, checked, hasPending)
        ELSE Once({Once({Finished(r, Append(checked, "release"), hasPending, mid) :
                         r \in {release(pkg, mid, bumpType, io.env, now)}}) :
                   mid \in {IF adds
                            THEN addToChangelog(fs, NoMessage, io.log, io.outcome, now).fs
                            ELSE fs}})

\* ------------------------------------------------------------- configuration
\* A JavaScript object with string values is a function from its keys;
\* a boolean is the text of its JSON literal.
Undefined == "undefined"
EmptyObject == [k \in {} |-> ""]
Get(obj, key) == IF key \in DOMAIN obj THEN obj[key] ELSE Undefined
\* a || b
OrElse(a, b) == IF a \in {Undefined, ""} THEN b ELSE a
\* { ...a, ...b }
Spread(a, b) == b @@ a

\* program.opts(): the defaults declared with .option(...) under the
\* options given on the command line.
AddOptionDefaults ==
    ("dir" :> "changelog/releases") @@ ("file" :> "draft.md") @@ ("time" :> "1 day ago")
ReleaseOptionDefaults ==
    ("dir" :> "changelog/releases") @@ ("file" :> "draft.md")
    @@ ("package" :> "package.json")
opts(defaults, cli) == Spread(defaults, cli)

\* changelog-add: the config object passed to the ChangelogManager.
AddCommandConfig(cli) ==
    LET options == opts(AddOptionDefaults, cli)
        config == ("changelogDir" :> options["dir"])
                  @@ ("draftFileName" :> options["file"])
                  @@ ("gitTimeRange" :> options["time"])
    IN  IF Get(options, "emojis") # Undefined
        THEN Spread(config, "useEmojis" :> options["emojis"])
        ELSE config

\* ChangelogManager.constructor: this.config, from the config passed and
\* the content of <projectRoot>/changelog.config.json ({} without one).
ChangelogManagerConfig(config, fileConfig) ==
    LET base ==
            ("changelogDir" :>
                 OrElse(Get(config, "changelogDir"),
                        OrElse(Get(fileConfig, "changelogDir"), "changelog/releases")))
            @@ ("draftFileName" :>
                 OrElse(Get(config, "draftFileName"),
                        OrElse(Get(fileConfig, "draftFileName"), "draft.md")))
            @@ ("gitTimeRange" :>
                 OrElse(Get(config, "gitTimeRange"),
                        OrElse(Get(fileConfig, "gitTimeRange"), "1 day ago")))
            @@ ("useEmojis" :>
                 IF Get(config, "useEmojis") # Undefined THEN config["useEmojis"]
                 ELSE IF Get(fileConfig, "useEmojis") # Undefined
                      THEN fileConfig["useEmojis"]
                      ELSE "true")
    IN  Spread(Spread(base, fileConfig), config)

\* changelog-release: the config object passed to the managers; fileConfig
\* is the content of the file named with --config ({} without the option).
ReleaseCommandConfig(cli, fileConfig) ==
    LET options == opts(ReleaseOptionDefaults, cli)
    IN  Spread(("changelogDir" :> options["dir"])
               @@ ("draftFileName" :> options["file"])
               @@ ("packageJsonPath" :> options["package"]),
               fileConfig)

\* ReleaseManager.constructor: this.config
ReleaseManagerConfig(config) ==
    LET base ==
            ("changelogDir" :> OrElse(Get(config, "changelogDir"), "changelog/releases"))
            @@ ("draftFileName" :> OrElse(Get(config, "draftFileName"), "draft.md"))
            @@ ("packageJsonPath" :> OrElse(Get(config, "packageJsonPath"), "package.json"))
    IN  Spread(base, config)

\* ------------------------------------------------------------- state
VARIABLES
    fs,          \* the changelog directory: [draft, versions]
    pkgVersion,  \* "version" of package.json
    releases,    \* release cuts run so far
    ops,         \* operations run so far
    lastOp       \* the last operation run: its inputs, the open document before
                 \* it ran (target, pre), whether a draft existed, its outcome

vars == <<fs, pkgVersion, releases, ops, lastOp>>

\* new Date().toISOString().split('T')[0] on the day the operations run,
\* and the date of the documents that were there before.
Today == "2026-11-04"
Earlier == "2024-07-04"

\* Documents found in a directory before the first operation of a run.
\* A draft as the tool writes it, and drafts edited by hand: the tag line
\* without the trailing space, removed, or already filled.
DraftTagged(v, d, tagLines) ==
    <<Delim, VersionLine(v), DateLine(d)>> \o tagLines
    \o <<Delim, Blank, TitleLine(v), Blank, Header, Blank, Comment, Blank, Blank>>

InitDrafts ==
    { NoFile,
      DraftTemplate(<<0, 2, 0>>, Earlier),
      DraftTagged(<<0, 2, 0>>, Earlier, <<TagEmpty("")>>),
      DraftTagged(<<0, 2, 0>>, Earlier, <<>>),
      DraftTagged(<<0, 2, 0>>, Earlier, <<TagFilled(<<0, 1, 0>>)>>) }

\* A directory is a set of version documents: released ones (tagged) and
\* ones created ahead of their release (no tag yet).
EmptyDir == <<>>
Released(v) == BasicContent(v, Earlier)
Precreated(v) == DraftTemplate(v, Earlier)

Dir0 == EmptyDir
\* The highest version document was created ahead of its release.
Dir1 == (FileName(<<1, 1, 0>>) :> Precreated(<<1, 1, 0>>))
\* A lower untagged document under a released highest one.
Dir2 ==
    (FileName(<<0, 1, 0>>) :> Precreated(<<0, 1, 0>>))
    @@ (FileName(<<1, 0, 0>>) :> Released(<<1, 0, 0>>))
\* Released documents, the highest one ahead of the manifest version.
Dir3 ==
    (FileName(<<1, 0, 0>>) :> Released(<<1, 0, 0>>))
    @@ (FileName(<<1, 1, 0>>) :> Released(<<1, 1, 0>>))

InitDirs == {Dir0, Dir1, Dir2, Dir3}

InitDirectories ==
    [draft : {NoFile, DraftTemplate(<<0, 2, 0>>, Earlier)}, versions : InitDirs]
    \cup [draft : InitDrafts, versions : {Dir1}]

InitManifests == {<<1, 0, 0>>}

NoEnv ==
    [manifestOk |-> TRUE, readOk |-> TRUE, writeOk |-> TRUE, unlinkOk |-> TRUE,
     tagOk |-> TRUE, commitOk |-> TRUE, pushOk |-> TRUE,
     configured |-> FALSE, responseOk |-> TRUE]

NoCfg ==
    [cli |-> EmptyObject, file |-> EmptyObject, passed |-> EmptyObject,
     effective |-> EmptyObject]

NoCmd ==
    [skip |-> FALSE, answer |-> "", addOk |-> TRUE, pending |-> FALSE,
     phases |-> <<>>, exit |-> 0, mid |-> NoTree.fs]

NoOp ==
    [op |-> "none", target |-> DraftPath, pre |-> NoFile, hadDraft |-> FALSE,
     log |-> <<>>, commits |-> <<>>, custom |-> NoMessage, entries |-> <<>>,
     outcome |-> [key |-> FALSE, err |-> FALSE, n |-> 0],
     inserted |-> 0, wrote |-> FALSE, bump |-> "",
     from |-> NoVer, newVersion |-> NoVer, gh |-> "", steps |-> <<>>, result |-> "",
     env |-> NoEnv, git |-> GitStart, before |-> NoTree, cmd |-> NoCmd,
     cfg |-> NoCfg, text |-> <<>>, fm |-> <<>>, cuts |-> <<>>]

Init ==
    /\ fs \in InitDirectories
    /\ pkgVersion \in InitManifests
    /\ releases = 0
    /\ ops = 0
    /\ lastOp = NoOp

\* The entry lines of the whole directory.
RECURSIVE SumEntries(_, _)
SumEntries(dir, names) ==
    IF names = {} THEN 0
    ELSE LET f == CHOOSE x \in names : TRUE
         IN  Len(Entries(dir.versions[f])) + SumEntries(dir, names \ {f})

TotalEntries(dir) == Len(Entries(dir.draft)) + SumEntries(dir, readdir(dir))

\* The messages given with --message.
CustomMessages == {MsgFix, MsgMerge}

\* What git log returns for the time range: nothing, one commit, two
\* commits, two commits with the same message, a merge commit before a
\* commit, a changelog commit alone, a commit with a | in its subject.
Logs ==
    { <<>>, <<MsgFix>>, <<MsgFix, MsgFeat>>, <<MsgFix, MsgFix>>,
      <<MsgMerge, MsgFeat>>, <<MsgChlog>>, <<MsgPiped>> }

\* What the polisher does when addToChangelog calls it with `count`
\* messages: no key is configured, the call throws, or the response has n
\* lines that start "- " (none, fewer than, as many as or more than the
\* messages).  With nothing to add the polisher is not called.
NotCalled == [key |-> FALSE, err |-> FALSE, n |-> 0]
PolisherOutcomes(count) ==
    IF count = 0 THEN {NotCalled}
    ELSE {NotCalled, [key |-> TRUE, err |-> TRUE, n |-> 0]}
         \cup {[key |-> TRUE, err |-> FALSE, n |-> k] : k \in 0..(count + 1)}

\* What a release cut meets outside the changelog directory.  In the add
\* and release workflows the manifest, the directory and git work, and
\* GitHub is configured or not and answers or not.
ReleaseEnvs ==
    [manifestOk : {TRUE}, readOk : {TRUE}, writeOk : {TRUE}, unlinkOk : {TRUE},
     tagOk : {TRUE}, commitOk : {TRUE}, pushOk : {TRUE},
     configured : BOOLEAN, responseOk : BOOLEAN]

\* ------------------------------------------------------------- actions
\* changelog-add: addToChangelog() over the commits of the time range.
AddCommits ==
    /\ ops < MaxOps
    /\ \E log \in Logs :
      \E outcome \in PolisherOutcomes(Len(MessagesToAdd(fs, NoMessage, log))) :
        LET r == addToChangelog(fs, NoMessage, log, outcome, Today)
        IN  /\ TotalEntries(r.fs) <= MaxEntries
            /\ ops' = ops + 1
            /\ fs' = r.fs
            /\ lastOp' = [NoOp EXCEPT !.op = "addCommits", !.target = r.releaseFile,
                              !.pre = ReadFile(fs, r.releaseFile),
                              !.hadDraft = Exists(fs, DraftPath),
                              !.log = log, !.commits = getNewCommits(log),
                              !.outcome = outcome,
                              !.inserted = r.inserted, !.wrote = r.wrote,
                              !.result = "resolved"]
            /\ UNCHANGED <<pkgVersion, releases>>

\* changelog-add --message: addToChangelog({customMessage}).
AddCustom ==
    /\ ops < MaxOps
    /\ \E message \in CustomMessages :
      \E outcome \in PolisherOutcomes(Len(MessagesToAdd(fs, message, <<>>))) :
        LET r == addToChangelog(fs, message, <<>>, outcome, Today)
        IN  /\ TotalEntries(r.fs) <= MaxEntries
            /\ ops' = ops + 1
            /\ fs' = r.fs
            /\ lastOp' = [NoOp EXCEPT !.op = "addCustom", !.target = r.releaseFile,
                              !.pre = ReadFile(fs, r.releaseFile),
                              !.hadDraft = Exists(fs, DraftPath),
                              !.custom = message, !.outcome = outcome,
                              !.inserted = r.inserted, !.wrote = r.wrote,
                              !.result = "resolved"]
            /\ UNCHANGED <<pkgVersion, releases>>

\* changelog-release: ReleaseManager.release(bumpType).
Release ==
    /\ releases < MaxReleases
    /\ ops < MaxOps
    /\ \E bumpType \in BumpTypes, env \in ReleaseEnvs :
        /\ ops' = ops + 1
        /\ bumpVersion(pkgVersion, bumpType) \in VersionSpace
        /\ \E r \in {release(pkgVersion, fs, bumpType, env, Today)} :
            /\ fs' = r.fs
            /\ pkgVersion' = r.pkg
            /\ releases' = releases + 1
            /\ lastOp' = [NoOp EXCEPT !.op = "release",
                              !.target = detectOpenReleaseFile(fs),
                              !.pre = ReadFile(fs, detectOpenReleaseFile(fs)),
                              !.hadDraft = Exists(fs, DraftPath), !.bump = bumpType,
                              !.from = pkgVersion, !.newVersion = r.newVersion,
                              !.gh = r.gh, !.steps = r.steps, !.result = r.result,
                              !.git = r.git]
Next == AddCommits \/ AddCustom \/ Release

Spec == Init /\ [][Next]_vars

\* ------------------------------------------------------------- the version functions on their own
\* File names of a changelog directory: version files with one- and
\* two-digit components, names of the pattern with a leading zero (which
\* semver.parse rejects), and names that do not match the pattern
\* (1.2.md, 2.0.0.0.md).
HarnessNames ==
    {<<a, b, c>> : a \in {<<1>>, <<0, 1>>}, b \in {<<3>>, <<9>>, <<1, 0>>}, c \in {<<0>>, <<3>>}}
    \cup { <<<<1>>, <<2>>, <<3>>>>, <<<<1>>, <<2>>>>, <<<<2>>, <<0>>, <<0>>, <<0>>>> }

\* Every file is a document without tag.
HarnessDoc == Precreated(<<1, 0, 0>>)
HarnessDirs ==
    {[f \in S |-> HarnessDoc] : S \in {T \in SUBSET HarnessNames : Cardinality(T) <= MaxFiles}}

VersionInit ==
    /\ fs \in [draft : {NoFile}, versions : HarnessDirs]
    /\ pkgVersion \in InitManifests
    /\ releases = 0
    /\ ops = 0
    /\ lastOp = NoOp

\* getNextVersion(bumpType)
NextVersion ==
    /\ lastOp.op = "none"
    /\ \E bumpType \in BumpTypes :
           lastOp' = [NoOp EXCEPT !.op = "getNextVersion", !.bump = bumpType,
                         !.newVersion = getNextVersion(fs, bumpType)]
    /\ UNCHANGED <<fs, pkgVersion, releases, ops>>

\* getHighestVersion()
HighestVersion ==
    /\ lastOp.op = "none"
    /\ lastOp' = [NoOp EXCEPT !.op = "getHighestVersion",
                      !.newVersion = getHighestVersion(fs)]
    /\ UNCHANGED <<fs, pkgVersion, releases, ops>>

\* detectOpenReleaseFile()
Resolve ==
    /\ lastOp.op = "none"
    /\ lastOp' = [NoOp EXCEPT !.op = "detectOpenReleaseFile",
                      !.target = detectOpenReleaseFile(fs)]
    /\ UNCHANGED <<fs, pkgVersion, releases, ops>>

VersionNext == NextVersion \/ HighestVersion \/ Resolve

VersionSpec == VersionInit /\ [][VersionNext]_vars

\* ------------------------------------------------------------- updateChangelogFile on its own
\* The documents updateChangelogFile is applied to: no file, the draft as
\* created, drafts that hold entries, documents without header line (with
\* and without a # Release line, with and without entries), an empty
\* file, a document with two header lines, a header as the last line.
OldEntry == EntryLine(Raw(MsgDocs), createMessageHash(MsgDocs))
MergeDocs ==
    { NoFile,
      DraftTemplate(<<0, 2, 0>>, Earlier),
      Splice(DraftTemplate(<<0, 2, 0>>, Earlier), 9, <<OldEntry>>),
      Splice(DraftTemplate(<<0, 2, 0>>, Earlier), 11, <<OldEntry>>),
      BasicContent(<<1, 0, 0>>, Earlier),
      <<Delim, VersionLine(<<1, 0, 0>>), Delim, TitleLine(<<1, 0, 0>>), OldEntry, Blank>>,
      <<TitleLine(<<1, 0, 0>>)>>,
      <<Blank>>,
      <<Comment, OldEntry, Blank>>,
      <<TitleLine(<<1, 0, 0>>), Header, OldEntry, Header, Blank>>,
      <<TitleLine(<<1, 0, 0>>), Blank, Header>> }

\* The entries of a call: { message, polished } with the polished text
\* either the raw rendering or a line of the polisher.
MergeEntries ==
    {[message |-> m, polished |-> Raw(m)] : m \in {MsgFix, MsgFeat}}
    \cup {[message |-> m, polished |-> AiLine(1)] : m \in {MsgFix, MsgFeat}}
RECURSIVE EntryLists(_)
EntryLists(n) ==
    IF n = 0 THEN {<<>>}
    ELSE LET shorter == EntryLists(n - 1)
         IN  shorter \cup {Append(q, e) : q \in shorter, e \in MergeEntries}

MergeInit ==
    /\ fs \in [draft : MergeDocs, versions : {EmptyDir}]
    /\ pkgVersion \in InitManifests
    /\ releases = 0
    /\ ops = 0
    /\ lastOp = NoOp

\* updateChangelogFile(draftFile, newEntries)
Merge ==
    /\ lastOp.op = "none"
    /\ \E newEntries \in EntryLists(MaxMergeEntries) :
        /\ fs' = updateChangelogFile(fs, DraftPath, newEntries, Today)
        /\ lastOp' = [NoOp EXCEPT !.op = "updateChangelogFile", !.target = DraftPath,
                          !.pre = ReadFile(fs, DraftPath),
                          !.hadDraft = Exists(fs, DraftPath),
                          !.entries = newEntries,
                          !.inserted = Len(newEntries), !.wrote = TRUE,
                          !.result = "resolved"]
    /\ UNCHANGED <<pkgVersion, releases, ops>>

MergeNext == Merge

MergeSpec == MergeInit /\ [][MergeNext]_vars

\* ------------------------------------------------------------- the resolver and the duplicate check on their own
\* Drafts: the documents above and a draft that cannot be read.
\* Directories: none, released documents, a highest version document that
\* cannot be read (alone and above a released one), and untagged highest
\* version documents that hold an entry, under the header and without one.
ProbeDrafts == MergeDocs \cup {Unreadable}
ProbeDirs ==
    { Dir0, Dir3,
      (FileName(<<1, 1, 0>>) :> Unreadable),
      (FileName(<<1, 0, 0>>) :> Released(<<1, 0, 0>>)) @@ (FileName(<<1, 1, 0>>) :> Unreadable),
      (FileName(<<1, 1, 0>>) :> Splice(Precreated(<<1, 1, 0>>), 9, <<OldEntry>>)),
      (FileName(<<1, 1, 0>>) :> <<Delim, VersionLine(<<1, 1, 0>>), Delim, OldEntry>>) }
ProbeMessages == {MsgFix, MsgDocs}

ProbeInit ==
    /\ fs \in [draft : ProbeDrafts, versions : ProbeDirs]
    /\ pkgVersion \in InitManifests
    /\ releases = 0
    /\ ops = 0
    /\ lastOp = NoOp

\* detectOpenReleaseFile()
ProbeResolve ==
    /\ lastOp.op = "none"
    /\ lastOp' = [NoOp EXCEPT !.op = "resolve", !.target = detectOpenReleaseFile(fs)]
    /\ UNCHANGED <<fs, pkgVersion, releases, ops>>

\* isMessageAlreadyInChangelog(await detectOpenReleaseFile(), hash)
ProbeDuplicate ==
    /\ lastOp.op = "none"
    /\ \E message \in ProbeMessages :
        \E releaseFile \in {detectOpenReleaseFile(fs)} :
           lastOp' = [NoOp EXCEPT !.op = "isDuplicate", !.target = releaseFile,
                         !.custom = message,
                         !.result =
                             IF isMessageAlreadyInChangelog(fs, releaseFile,
                                                            createMessageHash(message))
                             THEN "duplicate" ELSE "new"]
    /\ UNCHANGED <<fs, pkgVersion, releases, ops>>

ProbeNext == ProbeResolve \/ ProbeDuplicate

ProbeSpec == ProbeInit /\ [][ProbeNext]_vars

\* ------------------------------------------------------------- parseFrontmatter on text
\* A text is a sequence of characters.  String.prototype.split(sep) for a
\* separator of one character.
RECURSIVE SplitOn(_, _)
SplitOn(text, sep) ==
    LET at == FirstIndex({i \in 1..Len(text) : text[i] = sep})
    IN  IF at = 0 THEN <<text>>
        ELSE <<SubSeq(text, 1, at - 1)>> \o SplitOn(SubSeq(text, at + 1, Len(text)), sep)

\* Array.prototype.join(sep)
RECURSIVE JoinWith(_, _)
JoinWith(parts, sep) ==
    IF Len(parts) = 0 THEN <<>>
    ELSE IF Len(parts) = 1 THEN parts[1]
    ELSE parts[1] \o <<sep>> \o JoinWith(Tail(parts), sep)

\* String.prototype.trim
RECURSIVE Trim(_)
Trim(s) ==
    IF Len(s) = 0 THEN s
    ELSE IF s[1] = " " THEN Trim(Tail(s))
    ELSE IF s[Len(s)] = " " THEN Trim(SubSeq(s, 1, Len(s) - 1))
    ELSE s

Dashes == <<"-", "-", "-">>

\* The loop of parseFrontmatter with the value taken as the part after
\* the first colon up to the second one (split(':')[1]).
RECURSIVE ParseLines_SecondPart(_, _, _)
ParseLines_SecondPart(lines, i, frontmatter) ==
    IF i > Len(lines) \/ lines[i] = Dashes THEN frontmatter
    ELSE LET parts == SplitOn(lines[i], ":")
             key == parts[1]
         IN  ParseLines_SecondPart(lines, i + 1,
                 IF key # <<>> /\ Len(parts) > 1
                 THEN (Trim(key) :> Trim(parts[2])) @@ frontmatter
                 ELSE frontmatter)

\* The loop of parseFrontmatter from line i (1-based) on: it stops at the
\* first --- line; const [key, ...valueParts] = lines[i].split(':'), and
\* a truthy key with at least one value part sets frontmatter[key.trim()].
RECURSIVE ParseLines(_, _, _)
ParseLines(lines, i, frontmatter) ==
    IF i > Len(lines) \/ lines[i] = Dashes THEN frontmatter
    ELSE LET parts == SplitOn(lines[i], ":")
             key == parts[1]
             valueParts == Tail(parts)
         IN  ParseLines(lines, i + 1,
                 IF key # <<>> /\ Len(valueParts) > 0
                 THEN (Trim(key) :> Trim(JoinWith(valueParts, ":"))) @@ frontmatter
                 ELSE frontmatter)

\* parseFrontmatter(content) on the characters of the content.
parseFrontmatterText(content) ==
    LET lines == SplitOn(content, "\n")
    IN  IF lines[1] = Dashes THEN ParseLines(lines, 2, <<>>) ELSE <<>>

\* The texts parseFrontmatter is applied to: an opening line (---, --- and
\* a blank, or a key line), a line of up to MaxLineLen characters out of
\* a letter, the colon and the blank, one more line (the same key again,
\* a line without colon, an empty line, ---), a closing --- or none, and
\* a key line of the body; and the empty text.
Chars == {"k", ":", " "}
CharLines(n) == UNION {[1..m -> Chars] : m \in 0..n}
Openings == {Dashes, Dashes \o <<" ">>, <<"k", ":", "k">>}
SecondLines == {<<"k", ":", " ", "v">>, <<"k">>, <<>>, Dashes}
Closings == {<<>>, <<Dashes>>}
BodyLine == <<"b", ":", "k">>
Texts ==
    {<<>>}
    \cup {JoinWith(<<o, l, s>> \o c \o <<BodyLine>>, "\n") :
              o \in Openings, l \in CharLines(MaxLineLen), s \in SecondLines, c \in Closings}

FrontmatterInit ==
    /\ fs = [draft |-> NoFile, versions |-> EmptyDir]
    /\ pkgVersion \in InitManifests
    /\ releases = 0
    /\ ops = 0
    /\ lastOp \in {[NoOp EXCEPT !.text = t] : t \in Texts}

\* parseFrontmatter(content)
Decode ==
    /\ lastOp.op = "none"
    /\ lastOp' = [lastOp EXCEPT !.op = "parseFrontmatter",
                                !.fm = parseFrontmatterText(lastOp.text)]
    /\ UNCHANGED <<fs, pkgVersion, releases, ops>>

FrontmatterNext == Decode

FrontmatterSpec == FrontmatterInit /\ [][FrontmatterNext]_vars

\* ------------------------------------------------------------- release cuts in a row
\* Cuts one after the other, with a manifest that can be read or not and
\* whose update succeeds or fails at each cut; the directory and git work.
\* lastOp.cuts holds the versions of the documents the cuts have written.
SeriesManifests == InitManifests \cup {NoManifest}
SeriesDirectories == [draft : {NoFile, DraftTemplate(<<0, 2, 0>>, Earlier)}, versions : {Dir0, Dir3}]
SeriesEnvs == {[NoEnv EXCEPT !.manifestOk = ok] : ok \in BOOLEAN}

SeriesInit ==
    /\ fs \in SeriesDirectories
    /\ pkgVersion \in SeriesManifests
    /\ releases = 0
    /\ ops = 0
    /\ lastOp = NoOp

\* ReleaseManager.release(bumpType), again and again.
SeriesCut ==
    /\ releases < MaxReleases
    /\ \E bumpType \in BumpTypes, env \in SeriesEnvs :
        /\ bumpVersion(getCurrentVersion(pkgVersion), bumpType) \in VersionSpace
        /\ \E r \in {release(pkgVersion, fs, bumpType, env, Today)} :
            /\ fs' = r.fs
            /\ pkgVersion' = r.pkg
            /\ releases' = releases + 1
            /\ ops' = ops + 1
            /\ lastOp' = [NoOp EXCEPT !.op = "cut", !.bump = bumpType,
                              !.from = getCurrentVersion(pkgVersion),
                              !.newVersion = r.newVersion,
                              !.steps = r.steps, !.result = r.result, !.env = env,
                              !.cuts = IF "renameDraftFile" \in {r.steps[i] : i \in 1..Len(r.steps)}
                                       THEN Append(lastOp.cuts, r.newVersion)
                                       ELSE lastOp.cuts]

SeriesNext == SeriesCut

SeriesSpec == SeriesInit /\ [][SeriesNext]_vars

\* ------------------------------------------------------------- add, cut, add again
\* An add over the commits of the time range, a release cut, and the add
\* once more over the same commits.
RoundDirectories ==
    [draft : {NoFile, DraftTemplate(<<0, 2, 0>>, Earlier)}, versions : {Dir0, Dir1, Dir3}]
RoundLogs == { <<MsgFix>>, <<MsgFix, MsgFeat>>, <<MsgMerge, MsgFeat>> }

RoundInit ==
    /\ fs \in RoundDirectories
    /\ pkgVersion \in InitManifests
    /\ releases = 0
    /\ ops = 0
    /\ lastOp = NoOp

\* changelog-add, before the cut over any commits and after it over the
\* same ones.
RoundAdd ==
    /\ lastOp.op \in {"none", "cut"}
    /\ \E log \in (IF lastOp.op = "none" THEN RoundLogs ELSE {lastOp.log}) :
      \E outcome \in PolisherOutcomes(Len(MessagesToAdd(fs, NoMessage, log))) :
        \E r \in {addToChangelog(fs, NoMessage, log, outcome, Today)} :
            /\ ops' = ops + 1
            /\ fs' = r.fs
            /\ lastOp' = [NoOp EXCEPT !.op = "addCommits", !.target = r.releaseFile,
                              !.pre = ReadFile(fs, r.releaseFile),
                              !.hadDraft = Exists(fs, DraftPath),
                              !.log = log, !.commits = getNewCommits(log),
                              !.outcome = outcome,
                              !.inserted = r.inserted, !.wrote = r.wrote,
                              !.result = "resolved"]
            /\ UNCHANGED <<pkgVersion, releases>>

\* changelog-release after the first add.
RoundCut ==
    /\ lastOp.op = "addCommits"
    /\ releases = 0
    /\ \E bumpType \in BumpTypes, env \in ReleaseEnvs :
        \E r \in {release(pkgVersion, fs, bumpType, env, Today)} :
            /\ fs' = r.fs
            /\ pkgVersion' = r.pkg
            /\ releases' = releases + 1
            /\ ops' = ops + 1
            /\ lastOp' = [NoOp EXCEPT !.op = "cut", !.log = lastOp.log,
                              !.hadDraft = Exists(fs, DraftPath), !.bump = bumpType,
                              !.from = pkgVersion, !.newVersion = r.newVersion,
                              !.gh = r.gh, !.steps = r.steps, !.result = r.result]

RoundNext == RoundAdd \/ RoundCut

RoundSpec == RoundInit /\ [][RoundNext]_vars

\* ------------------------------------------------------------- the release cut on its own
\* A frontmatter line of another key (author: ...).
KeyLine == Line("key", NoVer, "author", <<>>, "")

\* The directories a cut starts from: the ones above, a draft with one
\* more frontmatter key, and directories an add has run on.
CutDirectories ==
    InitDirectories
    \cup [draft : {DraftTagged(<<0, 2, 0>>, Earlier, <<TagEmpty(" "), KeyLine>>)},
          versions : {Dir0, Dir3}]
    \cup {addToChangelog(d, NoMessage, <<MsgFix>>, NotCalled, Earlier).fs :
              d \in [draft : {NoFile, DraftTemplate(<<0, 2, 0>>, Earlier)},
                     versions : {Dir0, Dir1, Dir3}]}

\* What a release cut can meet: each of the manifest, the changelog
\* directory, git and GitHub working or failing.
CutEnvs ==
    [manifestOk : BOOLEAN, readOk : BOOLEAN, writeOk : BOOLEAN, unlinkOk : BOOLEAN,
     tagOk : BOOLEAN, commitOk : BOOLEAN, pushOk : BOOLEAN,
     configured : BOOLEAN, responseOk : BOOLEAN]

\* The values of --type, the answers to the prompt and the git logs of
\* the release command.
TypeArgs == BumpTypes \cup {"premajor"}
Answers == {"Y", " Yes ", "n"}
CommandLogs == {<<>>, <<MsgFix>>, <<MsgFix, MsgFeat>>, <<MsgChlog>>}
\* The polisher of the release command: no key, or as many lines as
\* messages.
CommandOutcomes(count) ==
    IF count = 0 THEN {NotCalled}
    ELSE {NotCalled, [key |-> TRUE, err |-> FALSE, n |-> count]}
\* GitHub not configured, or configured and answering with an error.
CommandEnvs == {env \in ReleaseEnvs : env.configured = ~env.responseOk}

CutInit ==
    /\ fs \in CutDirectories
    /\ pkgVersion \in InitManifests
    /\ releases = 0
    /\ ops = 0
    /\ lastOp = NoOp

\* ReleaseManager.release(bumpType) in every environment.
Cut ==
    /\ lastOp.op = "none"
    /\ \E bumpType \in BumpTypes, env \in CutEnvs :
        \E r \in {release(pkgVersion, fs, bumpType, env, Today)} :
            /\ fs' = r.fs
            /\ pkgVersion' = r.pkg
            /\ releases' = releases + 1
            /\ ops' = ops + 1
            /\ lastOp' = [NoOp EXCEPT !.op = "cut",
                              !.target = detectOpenReleaseFile(fs),
                              !.pre = ReadFile(fs, DraftPath),
                              !.hadDraft = Exists(fs, DraftPath), !.bump = bumpType,
                              !.from = pkgVersion, !.newVersion = r.newVersion,
                              !.gh = r.gh, !.steps = r.steps, !.result = r.result,
                              !.env = env, !.git = r.git,
                              !.before = [pkg |-> pkgVersion, fs |-> fs]]

\* The changelog-release command.
ReleaseCommand ==
    /\ lastOp.op = "none"
    /\ \E type \in TypeArgs, skipPendingCheck \in BOOLEAN, log \in CommandLogs,
          answer \in Answers, addOk \in BOOLEAN, env \in CommandEnvs :
      \E outcome \in CommandOutcomes(Len(MessagesToAdd(fs, NoMessage, log))) :
        \E c \in {releaseCommand(pkgVersion, fs,
                                [type |-> type, skipPendingCheck |-> skipPendingCheck],
                                [log |-> log, answer |-> answer, outcome |-> outcome,
                                 addOk |-> addOk, env |-> env], Today)} :
            /\ fs' = c.fs
            /\ pkgVersion' = c.pkg
            /\ releases' = releases + (IF c.cut = NoCut THEN 0 ELSE 1)
            /\ ops' = ops + 1
            /\ lastOp' = [NoOp EXCEPT !.op = "releaseCommand",
                              !.pre = ReadFile(c.mid, DraftPath),
                              !.hadDraft = Exists(c.mid, DraftPath), !.bump = type,
                              !.log = log, !.commits = getNewCommits(log),
                              !.outcome = outcome,
                              !.from = pkgVersion, !.newVersion = c.cut.newVersion,
                              !.gh = c.cut.gh, !.steps = c.cut.steps,
                              !.result = c.cut.result,
                              !.env = env, !.git = c.cut.git,
                              !.before = [pkg |-> pkgVersion, fs |-> fs],
                              !.cmd = [skip |-> skipPendingCheck, answer |-> answer,
                                       addOk |-> addOk, pending |-> c.pending,
                                       phases |-> c.phases, exit |-> c.exit,
                                       mid |-> c.mid]]

CutNext == Cut \/ ReleaseCommand

CutSpec == CutInit /\ [][CutNext]_vars

\* ------------------------------------------------------------- the configuration on its own
\* Objects over the given keys: each key absent, or with one of its values.
RECURSIVE Objects(_, _)
Objects(keys, values) ==
    IF keys = {} THEN {EmptyObject}
    ELSE LET k == CHOOSE x \in keys : TRUE
             rest == Objects(keys \ {k}, values)
         IN  rest \cup {(k :> v) @@ o : v \in values[k], o \in rest}

\* What is typed after changelog-add and changelog-release, and what the
\* configuration files hold.
AddCommandLines ==
    Objects({"dir", "file", "time", "emojis"},
            ("dir" :> {"cli"}) @@ ("file" :> {"cli"}) @@ ("time" :> {"cli"})
            @@ ("emojis" :> {"true", "false"}))
ReleaseCommandLines ==
    Objects({"dir", "file", "package"},
            ("dir" :> {"cli"}) @@ ("file" :> {"cli"}) @@ ("package" :> {"cli"}))
ConfigFiles ==
    Objects({"changelogDir", "draftFileName", "gitTimeRange", "useEmojis"},
            ("changelogDir" :> {"file"}) @@ ("draftFileName" :> {"file"})
            @@ ("gitTimeRange" :> {"file"}) @@ ("useEmojis" :> {"true", "false"}))
PassedFiles ==
    Objects({"changelogDir", "draftFileName", "packageJsonPath"},
            ("changelogDir" :> {"passed"}) @@ ("draftFileName" :> {"passed"})
            @@ ("packageJsonPath" :> {"passed"}))

ConfigInit ==
    /\ fs = [draft |-> NoFile, versions |-> EmptyDir]
    /\ pkgVersion \in InitManifests
    /\ releases = 0
    /\ ops = 0
    /\ lastOp = NoOp

\* changelog-add up to new ChangelogManager(config).
AddConfig ==
    /\ lastOp.op = "none"
    /\ \E cli \in AddCommandLines, file \in ConfigFiles :
        lastOp' = [NoOp EXCEPT !.op = "addConfig",
                       !.cfg = [cli |-> cli, file |-> file, passed |-> EmptyObject,
                                effective |-> ChangelogManagerConfig(AddCommandConfig(cli),
                                                                     file)]]
    /\ UNCHANGED <<fs, pkgVersion, releases, ops>>

\* changelog-release up to new ReleaseManager(config).
ReleaseConfig ==
    /\ lastOp.op = "none"
    /\ \E cli \in ReleaseCommandLines, passed \in PassedFiles :
        lastOp' = [NoOp EXCEPT !.op = "releaseConfig",
                       !.cfg = [cli |-> cli, file |-> EmptyObject, passed |-> passed,
                                effective |-> ReleaseManagerConfig(
                                                  ReleaseCommandConfig(cli, passed))]]
    /\ UNCHANGED <<fs, pkgVersion, releases, ops>>

ConfigNext == AddConfig \/ ReleaseConfig

ConfigSpec == ConfigInit /\ [][ConfigNext]_vars

\* ------------------------------------------------------------- properties
\* The version document the last release cut wrote.
NewDoc == ReadFile(fs, VersionPath(lastOp.newVersion))
IsAdd == lastOp.op \in {"addCommits", "addCustom"}
IsRelease == lastOp.op = "release"
\* No hash marker stands twice in the document.
NoDuplicateHash(doc) == \A i, j \in 1..Len(doc) :
    (IsEntry(doc[i]) /\ IsEntry(doc[j]) /\ doc[i].h = doc[j].h) => i = j
HasLine(doc, l) == \E i \in 1..Len(doc) : doc[i] = l
KindLines(doc, k) == SelectSeq(doc, LAMBDA l : l.k = k)

\* C1: an add over the commits the previous add has just worked through
\* inserts nothing and writes nothing, and the open document then holds
\* exactly one entry line for each message of that commit set.
C1_SecondAddIsNoOp ==
    [][(/\ lastOp.op = "addCommits"
        /\ lastOp'.op = "addCommits"
        /\ ops' = ops + 1
        /\ lastOp'.commits = lastOp.commits)
       => /\ lastOp'.inserted = 0
          /\ ~lastOp'.wrote
          /\ fs' = fs
          /\ \A i \in 1..Len(lastOp'.commits) :
                 HashCount(ReadFile(fs', lastOp'.target),
                           createMessageHash(lastOp'.commits[i])) = 1]_vars

\* C2: while only adds have run, no two entry lines of the open document
\* carry the same hash marker.
C2_NoDuplicateHashInOpenDocument ==
    releases = 0 => NoDuplicateHash(ReadFile(fs, detectOpenReleaseFile(fs)))

\* C3: after a release cut of a draft that held entries, <newVersion>.md
\* has no ## **Unreleased** line and holds the draft's entry lines in the
\* draft's order.
C3_ReleasedDocumentWithoutHeader ==
    (IsRelease /\ lastOp.hadDraft /\ Entries(lastOp.pre) # <<>>)
        => /\ ~HasLine(NewDoc, Header)
           /\ Entries(NewDoc) = Entries(lastOp.pre)

\* C4: a release cut whose GitHub request fails still creates the fresh
\* draft and resolves.
C4_ReleaseHostFailureNotFatal ==
    (IsRelease /\ lastOp.gh = "rejected")
        => /\ lastOp.result = "resolved"
           /\ Exists(fs, DraftPath)
           /\ Entries(fs.draft) = <<>>

\* C5: a release cut run with no draft and an untagged highest version
\* document turns that document into <newVersion>.md; the basic release
\* file is written only when there was no open document on storage.
C5_ReleaseCutsResolvedDocument ==
    IsRelease =>
        /\ lastOp.pre # NoFile =>
               NewDoc = RemoveUnreleasedHeader(
                            UpdateFrontmatter(lastOp.pre, lastOp.newVersion, Today))
        /\ NewDoc = BasicContent(lastOp.newVersion, Today) => lastOp.pre = NoFile

\* C6: a release cut of bump type b from manifest version v with a draft
\* present writes <inc(v,b)>.md and removes the old draft; when it
\* completes, the draft is a fresh one whose displayed version is the
\* patch increment of the highest version document of the directory.
C6_ReleaseRenamesDraft ==
    (IsRelease /\ lastOp.hadDraft) =>
        /\ lastOp.newVersion = SemverInc(lastOp.from, lastOp.bump)
        /\ lastOp.newVersion \in VersionFiles(fs)
        /\ Entries(NewDoc) = Entries(lastOp.pre)
        /\ pkgVersion = lastOp.newVersion
        /\ lastOp.result # "resolved" => fs.draft = NoFile
        /\ lastOp.result = "resolved" =>
               \E hv \in VersionFiles(fs) :
                   /\ \A w \in VersionFiles(fs) : ~SemverGt(w, hv)
                   /\ fs.draft = DraftTemplate(SemverInc(hv, "patch"), Today)

C6_Witness ==
    /\ IsRelease /\ lastOp.hadDraft /\ lastOp.result = "resolved"
    /\ lastOp.from = <<1, 0, 0>> /\ lastOp.bump = "minor"
    /\ KindLines(lastOp.pre, "version") = <<VersionLine(<<0, 2, 0>>)>>
    /\ <<1, 1, 0>> \in VersionFiles(fs)
    /\ KindLines(fs.draft, "version") = <<VersionLine(<<1, 1, 1>>)>>

\* C7: in every document of the directory the # Release <x> heading names
\* the version of the frontmatter version line.
TitleNamesVersion(doc) ==
    \A i, j \in 1..Len(doc) :
        (doc[i].k = "title" /\ doc[j].k = "version") => doc[i].ver = doc[j].ver

C7_TitleNamesFrontmatterVersion ==
    /\ TitleNamesVersion(fs.draft)
    /\ \A v \in VersionFiles(fs) : TitleNamesVersion(ReadFile(fs, VersionPath(v)))

\* C8 as stated: the document a completed release cut wrote carries the
\* tag v<newVersion>, whatever the draft's tag line was.
FrontmatterTag(doc) ==
    IF "tag" \in DOMAIN parseFrontmatter(doc) THEN <<parseFrontmatter(doc)["tag"]>> ELSE <<>>

C8_EveryReleasedDocumentTagged ==
    (IsRelease /\ lastOp.result = "resolved")
        => FrontmatterTag(NewDoc) = <<TagFilled(lastOp.newVersion)>>

\* C8 as amended: the document a completed release cut wrote carries the
\* tag v<newVersion> when the draft's frontmatter had a tag line with an
\* empty value, or when there was no draft (basic release file).
EmptyTagLines == {TagEmpty(""), TagEmpty(" ")}
C8_ReleasedDocumentTaggedFromPlaceholder ==
    (/\ IsRelease /\ lastOp.result = "resolved"
     /\ \/ ~lastOp.hadDraft
        \/ \E l \in EmptyTagLines : FrontmatterTag(lastOp.pre) = <<l>>)
        => FrontmatterTag(NewDoc) = <<TagFilled(lastOp.newVersion)>>

C8_Witness ==
    /\ IsRelease /\ lastOp.result = "resolved" /\ lastOp.hadDraft
    /\ FrontmatterTag(lastOp.pre) = <<TagEmpty(" ")>>
    /\ Entries(lastOp.pre) # <<>>
    /\ FrontmatterTag(NewDoc) = <<TagFilled(lastOp.newVersion)>>

\* C9: the release cut sets the tag to v<newVersion> when the draft's tag
\* line has an empty value; a draft without tag line gets none, and a tag
\* line with a value stays as it is.
C9_TagSetOnlyOnPlaceholder ==
    (IsRelease /\ lastOp.hadDraft) =>
        LET old == KindLines(lastOp.pre, "tag")
            new == KindLines(NewDoc, "tag")
        IN  /\ Len(new) = Len(old)
            /\ \A i \in 1..Len(old) :
                   new[i] = IF old[i] \in EmptyTagLines
                            THEN TagFilled(lastOp.newVersion) ELSE old[i]

C9_Witness ==
    /\ IsRelease /\ lastOp.hadDraft
    /\ KindLines(lastOp.pre, "tag") = <<>>
    /\ KindLines(NewDoc, "tag") = <<>>
    /\ KindLines(NewDoc, "version") = <<VersionLine(lastOp.newVersion)>>

\* C10: with a draft on storage the resolver returns the draft, whatever
\* version documents exist and whatever tag the draft has.
C10_DraftIsOpenDocument ==
    /\ Exists(fs, DraftPath) => detectOpenReleaseFile(fs) = DraftPath
    /\ (lastOp.op # "none" /\ lastOp.hadDraft) => lastOp.target = DraftPath

C10_Witness ==
    /\ IsAdd /\ lastOp.hadDraft /\ lastOp.target = DraftPath
    /\ HasTag(parseFrontmatter(lastOp.pre))
    /\ Truthy(getHighestVersion(fs))
    /\ ~HasTag(parseFrontmatter(ReadFile(fs, VersionPath(getHighestVersion(fs)))))

\* C11: with no draft on storage, a version document whose frontmatter has
\* no tag or an empty one is what the resolver returns if it is the
\* highest version document, and a version document that is not the
\* highest is never returned.
IsHighest(v) == \A w \in VersionFiles(fs) : ~SemverGt(w, v)
IsUntagged(doc) ==
    FrontmatterTag(doc) \in {<<>>, <<TagEmpty("")>>, <<TagEmpty(" ")>>}

C11_HighestUntaggedIsOpen ==
    ~Exists(fs, DraftPath) =>
        \A v \in VersionFiles(fs) :
            /\ (IsHighest(v) /\ IsUntagged(ReadFile(fs, VersionPath(v))))
                   => detectOpenReleaseFile(fs) = VersionPath(v)
            /\ ~IsHighest(v) => detectOpenReleaseFile(fs) # VersionPath(v)

\* No draft, two version documents without tag, and the add that has just
\* run wrote into the higher one.
C11_Witness ==
    /\ ~Exists(fs, DraftPath)
    /\ IsAdd /\ lastOp.wrote /\ ~lastOp.hadDraft
    /\ \E v, w \in VersionFiles(fs) :
           /\ SemverGt(v, w) /\ IsHighest(v)
           /\ IsUntagged(ReadFile(fs, VersionPath(w)))
           /\ IsUntagged(ReadFile(fs, VersionPath(v)))
           /\ lastOp.target = VersionPath(v)
           /\ Entries(ReadFile(fs, VersionPath(v))) # <<>>

\* C12: with no draft on storage and either no version document or a
\* tagged highest one, the resolver returns the draft path, and an add
\* that resolves it without writing leaves the draft absent; the draft is
\* there once the add has written.
NoOpenDocument ==
    /\ ~Exists(fs, DraftPath)
    /\ \A v \in VersionFiles(fs) :
           IsHighest(v) => ~IsUntagged(ReadFile(fs, VersionPath(v)))

HashIn(doc, h) == \E i \in 1..Len(doc) : IsEntry(doc[i]) /\ doc[i].h = h
AddInput == IF lastOp.op = "addCustom" THEN <<lastOp.custom>> ELSE lastOp.commits
AddedMessages ==
    SelectSeq(AddInput, LAMBDA m : ~HashIn(lastOp.pre, createMessageHash(m)))
PostDoc == ReadFile(fs, lastOp.target)
HeaderAt(doc) == FirstIndex({i \in 1..Len(doc) : doc[i] = Header})
Hashes(doc) == [i \in 1..Len(Entries(doc)) |-> Entries(doc)[i].h]

\* C13: an add that writes into a document with a header line leaves the
\* lines up to the header as they were, puts the entry lines of its batch
\* directly under the header in the order of the batch, and all lines
\* that stood under the header follow them unchanged; so the batch added
\* last stands first.
C13_BatchDirectlyUnderHeader ==
    (IsAdd /\ lastOp.wrote /\ HeaderAt(lastOp.pre) # 0) =>
        LET pre == lastOp.pre
            h == HeaderAt(pre)
            n == Len(AddedMessages)
        IN  /\ Len(PostDoc) = Len(pre) + n
            /\ SubSeq(PostDoc, 1, h) = SubSeq(pre, 1, h)
            /\ \A i \in 1..n :
                   /\ IsEntry(PostDoc[h + i])
                   /\ PostDoc[h + i].h = createMessageHash(AddedMessages[i])
            /\ SubSeq(PostDoc, h + n + 1, Len(PostDoc)) = SubSeq(pre, h + 1, Len(pre))

\* A batch of two has gone into a document that held one entry: the two
\* stand above it, in the order of the batch.
C13_Witness ==
    /\ lastOp.op = "addCommits" /\ lastOp.wrote
    /\ lastOp.commits = <<MsgFix, MsgFeat>>
    /\ Len(Entries(lastOp.pre)) = 1
    /\ Hashes(PostDoc) = <<createMessageHash(MsgFix), createMessageHash(MsgFeat)>>
                             \o Hashes(lastOp.pre)
    /\ PostDoc[HeaderAt(PostDoc) + 1].h = createMessageHash(MsgFix)

\* C16: whatever the polisher does, an add inserts one entry line for
\* every message of its input whose hash marker was not in the open
\* document, in the order of the input and above the lines that were
\* there; without key or with a failing call every such line is the raw
\* rendering - <message>.
C16_OneLinePerMessageWhateverThePolisher ==
    IsAdd =>
        LET n == Len(AddedMessages)
        IN  /\ lastOp.inserted = n
            /\ Len(Entries(PostDoc)) = n + Len(Entries(lastOp.pre))
            /\ \A i \in 1..n : Entries(PostDoc)[i].h = createMessageHash(AddedMessages[i])
            /\ \A i \in 1..Len(Entries(lastOp.pre)) :
                   Entries(PostDoc)[n + i] = Entries(lastOp.pre)[i]
            /\ (~lastOp.outcome.key \/ lastOp.outcome.err) =>
                   \A i \in 1..n :
                       Entries(PostDoc)[i] = EntryLine(Raw(AddedMessages[i]),
                                                       createMessageHash(AddedMessages[i]))

\* The polisher answered with one line for two messages: the first entry
\* is that line, the second the raw rendering of the second message.
C16_Witness ==
    /\ lastOp.op = "addCommits" /\ lastOp.commits = <<MsgFix, MsgFeat>>
    /\ lastOp.outcome = [key |-> TRUE, err |-> FALSE, n |-> 1]
    /\ lastOp.inserted = 2
    /\ Entries(PostDoc)[1] = EntryLine(AiLine(1), createMessageHash(MsgFix))
    /\ Entries(PostDoc)[2] = EntryLine(Raw(MsgFeat), createMessageHash(MsgFeat))

\* C19: an add of a custom message whose hash marker is in the open
\* document inserts nothing and leaves the directory as it is; an add of
\* a custom message whose hash marker is not in it inserts one line, and
\* in a document with a header line that line stands directly under the
\* header, above the lines that were there.
C19_CustomMessageOnceOnly ==
    [][(ops' = ops + 1 /\ lastOp'.op = "addCustom") =>
          LET pre == lastOp'.pre
              post == ReadFile(fs', lastOp'.target)
              hash == createMessageHash(lastOp'.custom)
              h == HeaderAt(pre)
          IN  IF HashIn(pre, hash)
              THEN fs' = fs /\ lastOp'.inserted = 0 /\ ~lastOp'.wrote
              ELSE /\ lastOp'.inserted = 1
                   /\ Len(Entries(post)) = Len(Entries(pre)) + 1
                   /\ h # 0 =>
                          /\ SubSeq(post, 1, h) = SubSeq(pre, 1, h)
                          /\ IsEntry(post[h + 1]) /\ post[h + 1].h = hash
                          /\ SubSeq(post, h + 2, Len(post)) = SubSeq(pre, h + 1, Len(pre))]_vars

\* A custom message has gone into a draft that held one entry with
\* another hash: its line stands under the header, the old entry below it.
C19_Witness ==
    /\ lastOp.op = "addCustom" /\ lastOp.wrote /\ lastOp.custom = MsgFix
    /\ Len(Entries(lastOp.pre)) = 1
    /\ Entries(lastOp.pre)[1].h # createMessageHash(MsgFix)
    /\ IsEntry(PostDoc[HeaderAt(PostDoc) + 1])
    /\ PostDoc[HeaderAt(PostDoc) + 1].h = createMessageHash(MsgFix)
    /\ PostDoc[HeaderAt(PostDoc) + 2] = Entries(lastOp.pre)[1]

\* C20: the entry lines an add over the commits inserts are those of the
\* commits of the log whose message is not administrative (no "merge pull
\* request", "merge branch" or "updated changelog" in it and no "merge "
\* at its start, case ignored) and whose hash marker was not in the open
\* document, in the order of the log; no line comes from an
\* administrative commit.
Candidates == SelectSeq(lastOp.log, LAMBDA subject : ~IsAdministrative(subject))
NewCandidates ==
    SelectSeq(Candidates, LAMBDA subject : ~HashIn(lastOp.pre, createMessageHash(subject)))

C20_AdministrativeCommitsNeverInserted ==
    lastOp.op = "addCommits" =>
        /\ Len(Entries(PostDoc)) = Len(NewCandidates) + Len(Entries(lastOp.pre))
        /\ \A i \in 1..Len(NewCandidates) :
               Entries(PostDoc)[i].h = createMessageHash(NewCandidates[i])

\* ------------------------------------------------------------- properties of the version functions
\* The versions of the directory: the numbers of the file names that have
\* three components, none with a leading zero.
WellFormed(f) == Len(f) = 3 /\ \A i \in 1..3 : Len(f[i]) = 1 \/ f[i][1] # 0
DirVersions == {NumVersion(f) : f \in {g \in readdir(fs) : WellFormed(g)}}
\* a is not below b: major, then minor, then patch, as numbers.
NotBelow(a, b) ==
    \/ a[1] > b[1]
    \/ a[1] = b[1] /\ a[2] > b[2]
    \/ a[1] = b[1] /\ a[2] = b[2] /\ a[3] >= b[3]
Increment(v, type) ==
    IF type = "major" THEN <<v[1] + 1, 0, 0>>
    ELSE IF type = "minor" THEN <<v[1], v[2] + 1, 0>>
    ELSE <<v[1], v[2], v[3] + 1>>

\* C17: getNextVersion(bumpType) is 0.1.0 for every bump type in a
\* directory without version document, and otherwise the increment of
\* the highest version of the directory; for 1.2.3 and 1.3.0 and patch it
\* is 1.3.1.
C17_NextVersion ==
    lastOp.op = "getNextVersion" =>
        /\ DirVersions = {} => lastOp.newVersion = <<0, 1, 0>>
        /\ \A v \in DirVersions :
               (\A w \in DirVersions : NotBelow(v, w))
                   => lastOp.newVersion = Increment(v, lastOp.bump)
        /\ (DirVersions = {<<1, 2, 3>>, <<1, 3, 0>>} /\ lastOp.bump = "patch")
               => lastOp.newVersion = <<1, 3, 1>>

C17_Witness ==
    /\ lastOp.op = "getNextVersion" /\ lastOp.bump = "patch"
    /\ readdir(fs) = {FileName(<<1, 2, 3>>), FileName(<<1, 3, 0>>)}
    /\ lastOp.newVersion = <<1, 3, 1>>

\* C18: getHighestVersion returns the version of the directory that is
\* not below any other by numeric comparison of major, minor and patch;
\* a file name with a leading zero or of another shape does not count,
\* and a directory with only such names is handled like an empty one by
\* getHighestVersion's callers.
C18_HighestVersion ==
    /\ lastOp.op = "getHighestVersion" =>
           IF DirVersions = {} THEN ~Truthy(lastOp.newVersion)
           ELSE /\ lastOp.newVersion \in DirVersions
                /\ \A w \in DirVersions : NotBelow(lastOp.newVersion, w)
    /\ (lastOp.op = "getNextVersion" /\ DirVersions = {})
           => lastOp.newVersion = <<0, 1, 0>>
    /\ (lastOp.op = "detectOpenReleaseFile" /\ DirVersions = {})
           => lastOp.target = DraftPath

\* 1.10.0 is returned from a directory with 1.9.0, 1.10.0 and 01.10.3.
C18_Witness ==
    /\ lastOp.op = "getHighestVersion"
    /\ readdir(fs) = { FileName(<<1, 9, 0>>), FileName(<<1, 10, 0>>),
                        <<<<0, 1>>, <<1, 0>>, <<3>>>> }
    /\ lastOp.newVersion = <<1, 10, 0>>

\* ------------------------------------------------------------- properties of updateChangelogFile
IsMerge == lastOp.op = "updateChangelogFile"
RECURSIVE IsSubsequence(_, _)
IsSubsequence(a, b) ==
    IF a = <<>> THEN TRUE
    ELSE IF b = <<>> THEN FALSE
    ELSE IF Head(a) = Head(b) THEN IsSubsequence(Tail(a), Tail(b))
    ELSE IsSubsequence(a, Tail(b))

\* C14: the lines of the document before updateChangelogFile are, in the
\* same order and unchanged, a subsequence of its lines afterwards.
C14_MergeKeepsContent ==
    IsMerge => IsSubsequence(lastOp.pre, fs.draft)

\* Two entries merged into a draft that held text and an entry.
C14_Witness ==
    /\ IsMerge /\ Len(lastOp.entries) = 2
    /\ Len(Entries(lastOp.pre)) = 1 /\ Len(lastOp.pre) > 10
    /\ Len(fs.draft) = Len(lastOp.pre) + 2
    /\ IsSubsequence(lastOp.pre, fs.draft)

\* The lines updateChangelogFile makes of the entries of the last call.
MergedLines ==
    [i \in 1..Len(lastOp.entries) |->
        EntryLine(lastOp.entries[i].polished, createMessageHash(lastOp.entries[i].message))]
TitleAt(doc) == FirstIndex({i \in 1..Len(doc) : doc[i].k = "title"})
\* The last call ran on an existing document without header line.
MergedWithoutHeader == IsMerge /\ lastOp.hadDraft /\ HeaderAt(lastOp.pre) = 0

\* C15 as stated: merged into a document without header line, the entries
\* come after an empty line, the header and an empty line, all of it
\* directly after the # Release line if there is one and at the end of the
\* document otherwise.
C15_HeaderBlankThenEntries ==
    MergedWithoutHeader =>
        LET pre == lastOp.pre
            t == TitleAt(pre)
        IN  IF t # 0
            THEN fs.draft = SubSeq(pre, 1, t) \o <<Blank, Header, Blank>> \o MergedLines
                                \o SubSeq(pre, t + 1, Len(pre))
            ELSE fs.draft = pre \o <<Blank, Header, Blank>> \o MergedLines

\* C15 as amended: below a # Release line go an empty line, the header,
\* the entries and then an empty line; without such a line an empty line,
\* the header, an empty line and the entries are appended.
C15_EntriesUnderInsertedHeader ==
    MergedWithoutHeader =>
        LET pre == lastOp.pre
            t == TitleAt(pre)
        IN  IF t # 0
            THEN fs.draft = SubSeq(pre, 1, t) \o <<Blank, Header>> \o MergedLines
                                \o <<Blank>> \o SubSeq(pre, t + 1, Len(pre))
            ELSE fs.draft = pre \o <<Blank, Header, Blank>> \o MergedLines

\* Two entries merged into a released document, which has a # Release
\* line and no header: they stand between the new header and the new
\* empty line.
C15_Witness ==
    /\ MergedWithoutHeader /\ Len(lastOp.entries) = 2
    /\ TitleAt(lastOp.pre) = 7
    /\ SubSeq(fs.draft, 7, 12) = <<lastOp.pre[7], Blank, Header>> \o MergedLines \o <<Blank>>

\* ------------------------------------------------------------- the release cut: failures
\* A release cut ran (release was called) in the last operation.
IsCut == lastOp.steps # <<>>
Reached(step) == \E i \in 1..Len(lastOp.steps) : lastOp.steps[i] = step
LastStep == lastOp.steps[Len(lastOp.steps)]

\* C21: when the GitHub token or repository is unset, a release cut that
\* gets to the remote release step skips it: no request is made, nothing is
\* thrown, and the next step runs and leaves a fresh draft without entry.
C21_UnconfiguredHostSkipped ==
    (IsCut /\ ~lastOp.env.configured /\ Reached("createGithubRelease"))
        => /\ lastOp.gh = "skipped"
           /\ lastOp.result = "resolved"
           /\ LastStep = "startNewDraft"
           /\ Exists(fs, DraftPath)
           /\ Entries(fs.draft) = <<>>

\* A cut without GitHub configuration while GitHub would not answer, after
\* a tag and a commit that failed, from a draft with an entry.
C21_Witness ==
    /\ lastOp.op = "cut"
    /\ ~lastOp.env.configured /\ ~lastOp.env.responseOk
    /\ ~lastOp.env.tagOk
    /\ Entries(lastOp.pre) # <<>>
    /\ lastOp.gh = "skipped"
    /\ LastStep = "startNewDraft"

\* C22: a release cut in which the tag creation or the commit/push fails
\* still attempts the remote release and the fresh draft and resolves with
\* newVersion.
C22_GitFailureNotFatal ==
    (/\ IsCut /\ Reached("createGitTag")
     /\ (~lastOp.env.tagOk \/ ~lastOp.env.commitOk \/ ~lastOp.env.pushOk))
        => /\ Reached("createGithubRelease")
           /\ Reached("startNewDraft")
           /\ lastOp.result = "resolved"
           /\ lastOp.newVersion = Increment(lastOp.from, lastOp.bump)

\* C23: when a release cut completes there is a draft, its tag is empty,
\* it has the Unreleased header and no entry line, and the version it
\* displays is the patch increment of the highest version document of the
\* directory at that moment.
C23_FreshDraftAfterCut ==
    (IsCut /\ lastOp.result = "resolved")
        => /\ Exists(fs, DraftPath)
           /\ FrontmatterTag(fs.draft) = <<TagEmpty(" ")>>
           /\ HasLine(fs.draft, Header)
           /\ Entries(fs.draft) = <<>>
           /\ DirVersions # {}
           /\ \E top \in DirVersions :
                /\ \A v \in DirVersions : NotBelow(top, v)
                /\ KindLines(fs.draft, "version") = <<VersionLine(Increment(top, "patch"))>>
                /\ KindLines(fs.draft, "title") = <<TitleLine(Increment(top, "patch"))>>

\* A completed cut in a directory whose highest version document is above
\* the version the cut released, from a draft with an entry.
C23_Witness ==
    /\ lastOp.op = "cut" /\ lastOp.result = "resolved"
    /\ Entries(lastOp.pre) # <<>>
    /\ \E v \in DirVersions : v # lastOp.newVersion /\ NotBelow(v, lastOp.newVersion)
    /\ Exists(fs, DraftPath)

\* C24: a release command with a bump type other than major, minor and
\* patch exits with status 1 and changes nothing: the manifest and the
\* changelog directory are as before, no tag or commit is made, no release
\* step is entered and GitHub is not called.
C24_InvalidTypeNoMutation ==
    (lastOp.op = "releaseCommand" /\ lastOp.bump \notin {"major", "minor", "patch"})
        => /\ lastOp.cmd.exit = 1
           /\ pkgVersion = lastOp.before.pkg
           /\ fs = lastOp.before.fs
           /\ lastOp.git = GitStart
           /\ lastOp.steps = <<>>
           /\ lastOp.gh = ""

\* A release command with --type premajor in a directory with a draft and
\* pending commits.
C24_Witness ==
    /\ lastOp.op = "releaseCommand" /\ lastOp.bump = "premajor"
    /\ lastOp.hadDraft /\ lastOp.commits # <<>> /\ ~lastOp.cmd.skip
    /\ lastOp.cmd.exit = 1

\* C25: a release cut that cannot write the version document rejects
\* with renameDraftFile as its last step: no tag, no commit, no GitHub
\* call, no fresh draft, the changelog directory as before; the manifest
\* that was updated keeps newVersion.
C25_UnwritableDocumentAborts ==
    (IsCut /\ ~lastOp.env.writeOk)
        => /\ lastOp.result = "rejected"
           /\ lastOp.steps = <<"updatePackageJson", "updateAdditionalFiles", "renameDraftFile">>
           /\ lastOp.git = GitStart
           /\ lastOp.gh = ""
           /\ fs = lastOp.before.fs
           /\ (lastOp.env.manifestOk =>
                  /\ pkgVersion = lastOp.newVersion
                  /\ pkgVersion # lastOp.before.pkg)

\* A cut with a draft present, a writable manifest and an unwritable
\* changelog directory, with GitHub configured.
C25_Witness ==
    /\ lastOp.op = "cut" /\ ~lastOp.env.writeOk /\ lastOp.env.manifestOk
    /\ lastOp.hadDraft /\ lastOp.env.configured
    /\ lastOp.result = "rejected"
    /\ pkgVersion = lastOp.newVersion

\* ------------------------------------------------------------- the release command
IsCommand == lastOp.op = "releaseCommand" /\ lastOp.bump \in {"major", "minor", "patch"}
\* Commits of the log are not in the open document the command found.
PendingBefore == hasPendingCommits(lastOp.before.fs, lastOp.log)
TypedYes == lastOp.cmd.answer \in {"Y", " Yes "}
\* The directory an add over the log leaves when run before the command.
AfterAdd ==
    addToChangelog(lastOp.before.fs, NoMessage, lastOp.log, lastOp.outcome, Today).fs

\* C26: the release command checks for pending commits before the cut
\* unless --skip-pending-check is given; with pending commits and the
\* answer yes the add workflow runs, and the cut starts from the directory
\* the add left; with the answer no the cut starts from the directory as
\* it was; in both cases, and without pending commits, the cut runs.
C26_PendingCheckBeforeCut ==
    IsCommand =>
        /\ lastOp.cmd.skip =>
              /\ lastOp.cmd.phases = <<"validate", "release">>
              /\ lastOp.cmd.mid = lastOp.before.fs
        /\ (~lastOp.cmd.skip /\ ~PendingBefore) =>
              /\ lastOp.cmd.phases = <<"validate", "hasPendingCommits", "release">>
              /\ lastOp.cmd.mid = lastOp.before.fs
        /\ (~lastOp.cmd.skip /\ PendingBefore /\ TypedYes /\ lastOp.cmd.addOk) =>
              /\ lastOp.cmd.phases =
                     <<"validate", "hasPendingCommits", "prompt", "addToChangelog", "release">>
              /\ lastOp.cmd.mid = AfterAdd
              /\ TotalEntries(lastOp.cmd.mid) > TotalEntries(lastOp.before.fs)
        /\ (~lastOp.cmd.skip /\ PendingBefore /\ ~TypedYes) =>
              /\ lastOp.cmd.phases = <<"validate", "hasPendingCommits", "prompt", "release">>
              /\ lastOp.cmd.mid = lastOp.before.fs
        /\ (lastOp.cmd.skip \/ ~PendingBefore \/ ~TypedYes \/ lastOp.cmd.addOk) => IsCut

\* A command that found two pending commits, was answered " Yes ", added
\* them and cut the release.
C26_Witness ==
    /\ IsCommand /\ ~lastOp.cmd.skip /\ PendingBefore
    /\ lastOp.cmd.answer = " Yes " /\ lastOp.cmd.addOk
    /\ Len(lastOp.commits) = 2
    /\ TotalEntries(lastOp.cmd.mid) = TotalEntries(lastOp.before.fs) + 2
    /\ lastOp.result = "resolved"

\* ------------------------------------------------------------- configuration precedence
\* The option of the command line that sets a configuration key, and the
\* built-in default of the key.
OptionOf(key) ==
    CASE key = "changelogDir" -> "dir"
      [] key = "draftFileName" -> "file"
      [] key = "gitTimeRange" -> "time"
      [] key = "useEmojis" -> "emojis"
      [] key = "packageJsonPath" -> "package"
DefaultOf(key) ==
    CASE key = "changelogDir" -> "changelog/releases"
      [] key = "draftFileName" -> "draft.md"
      [] key = "gitTimeRange" -> "1 day ago"
      [] key = "useEmojis" -> "true"
      [] key = "packageJsonPath" -> "package.json"
\* The value of the key by the layers: command line, then file, then
\* default.
Layered(key, cli, file) ==
    IF OptionOf(key) \in DOMAIN cli THEN cli[OptionOf(key)]
    ELSE IF key \in DOMAIN file THEN file[key]
    ELSE DefaultOf(key)

\* C27: in the add and in the release command every configuration key has
\* the value given on the command line when there is one, else the value of
\* the configuration file (changelog.config.json for add, the --config file
\* for release) when it has the key, else the built-in default.
C27_CommandLineOverFileOverDefault ==
    /\ lastOp.op = "addConfig" =>
          \A key \in {"changelogDir", "draftFileName", "gitTimeRange", "useEmojis"} :
              lastOp.cfg.effective[key] = Layered(key, lastOp.cfg.cli, lastOp.cfg.file)
    /\ lastOp.op = "releaseConfig" =>
          \A key \in {"changelogDir", "draftFileName", "packageJsonPath"} :
              lastOp.cfg.effective[key] = Layered(key, lastOp.cfg.cli, lastOp.cfg.passed)

\* ------------------------------------------------------------- the order of the release steps
ClaimedOrder ==
    <<"updatePackageJson", "updateAdditionalFiles", "renameDraftFile", "createGitTag",
      "commitAndPush", "createGithubRelease", "startNewDraft">>

\* C28: the steps of a release cut are entered in the order manifest,
\* auxiliary files, rename, tag, commit/push, remote release, fresh draft,
\* up to the step that throws, and all of them in a cut that resolves.  The
\* tag names the commit before the release commit; the release commit holds
\* the new manifest version and the version document but not the fresh
\* draft, which is only there when the remote release step did not throw.
C28_StepOrder ==
    IsCut =>
        /\ lastOp.steps = SubSeq(ClaimedOrder, 1, Len(lastOp.steps))
        /\ lastOp.result = "resolved" => lastOp.steps = ClaimedOrder
        /\ (Reached("commitAndPush") /\ lastOp.env.tagOk /\ lastOp.env.commitOk) =>
              /\ lastOp.git.tagAt = 0
              /\ lastOp.git.head = 1
        /\ (Reached("commitAndPush") /\ lastOp.env.commitOk) =>
              /\ Exists(lastOp.git.tree.fs, VersionPath(lastOp.newVersion))
              /\ lastOp.env.manifestOk => lastOp.git.tree.pkg = lastOp.newVersion
              /\ (lastOp.hadDraft /\ lastOp.env.readOk /\ lastOp.env.unlinkOk) =>
                     ~Exists(lastOp.git.tree.fs, DraftPath)
              /\ lastOp.gh = "rejected" => fs = lastOp.git.tree.fs
        /\ Reached("startNewDraft") => lastOp.gh \in {"skipped", "created"}

\* A cut that tagged, committed, pushed, created the GitHub release and
\* started the fresh draft.
C28_Witness ==
    /\ lastOp.op = "cut" /\ lastOp.result = "resolved"
    /\ lastOp.hadDraft
    /\ lastOp.git.tagAt = 0 /\ lastOp.git.head = 1 /\ lastOp.git.pushed
    /\ lastOp.gh = "created"
    /\ Exists(fs, DraftPath) /\ ~Exists(lastOp.git.tree.fs, DraftPath)

\* ------------------------------------------------------------- the fallback document and the frontmatter
\* The cut could not read a draft: there was none, or the read failed.
NoDraftRead == ~lastOp.hadDraft \/ ~lastOp.env.readOk

\* C29: a release cut that cannot read a draft writes <newVersion>.md
\* as the minimal document: frontmatter with version newVersion and tag
\* v<newVersion>, the title of newVersion, the single bullet of newVersion
\* and no other content line; the cut then goes on with the tag, the
\* commit/push and the remote release, and ends with the fresh draft
\* unless the remote release step throws.
C29_FallbackDocument ==
    (IsCut /\ NoDraftRead /\ lastOp.env.writeOk)
        => /\ Exists(fs, VersionPath(lastOp.newVersion))
           /\ KindLines(NewDoc, "version") = <<VersionLine(lastOp.newVersion)>>
           /\ FrontmatterTag(NewDoc) = <<TagFilled(lastOp.newVersion)>>
           /\ KindLines(NewDoc, "title") = <<TitleLine(lastOp.newVersion)>>
           /\ KindLines(NewDoc, "bullet") = <<BulletLine(lastOp.newVersion)>>
           /\ \A i \in 1..Len(NewDoc) :
                  NewDoc[i].k \in {"delim", "version", "date", "tag", "blank", "title",
                                   "bullet"}
           /\ Reached("createGitTag") /\ Reached("commitAndPush")
           /\ Reached("createGithubRelease")
           /\ lastOp.gh # "rejected" =>
                  (LastStep = "startNewDraft" /\ lastOp.result = "resolved")

\* A cut in a directory without draft, and a cut whose draft with an entry
\* could not be read, both completed.
C29_Witness ==
    /\ lastOp.op = "cut" /\ lastOp.env.writeOk /\ lastOp.result = "resolved"
    /\ \/ ~lastOp.hadDraft
       \/ ~lastOp.env.readOk /\ Entries(lastOp.pre) # <<>>
    /\ NewDoc = BasicContent(lastOp.newVersion, Today)

\* The frontmatter block: from the opening --- to the next --- line.
Block(doc) == SubSeq(doc, 1, FrontmatterEnd(doc))
\* The cut read the draft and wrote the transformed text.
Transformed ==
    /\ IsCut /\ lastOp.hadDraft
    /\ lastOp.env.readOk /\ lastOp.env.writeOk /\ lastOp.env.unlinkOk

\* C30: the frontmatter block of the document a release cut writes from a
\* draft has the lines of the draft's block, in the same order: line by
\* line the same key, lines other than version, date and tag identical,
\* and no line more or less.
C30_FrontmatterLinesKept ==
    Transformed =>
        LET old == Block(lastOp.pre)
            new == Block(NewDoc)
        IN  /\ Len(new) = Len(old)
            /\ \A i \in 1..Len(old) :
                  /\ i <= Len(new)
                  /\ new[i].k = old[i].k
                  /\ old[i].k \notin {"version", "date", "tag"} => new[i] = old[i]

\* C31: the duplicate check answers true exactly when the hash marker of
\* the message stands in some line of the resolved open document, under
\* the Unreleased header or anywhere else; for a document that is missing
\* or cannot be read it answers false.
MarkerLines(doc, h) == {i \in 1..Len(doc) : doc[i].k = "entry" /\ doc[i].h = h}
ProbedDoc == ReadFile(fs, lastOp.target)
C31_DuplicateIffMarkerAnywhere ==
    lastOp.op = "isDuplicate" =>
        /\ (~Exists(fs, lastOp.target) \/ ProbedDoc = Unreadable) => lastOp.result = "new"
        /\ (Exists(fs, lastOp.target) /\ ProbedDoc # Unreadable) =>
               (lastOp.result = "duplicate"
                   <=> MarkerLines(ProbedDoc, createMessageHash(lastOp.custom)) # {})
C31_Witness ==
    /\ lastOp.op = "isDuplicate"
    /\ lastOp.result = "duplicate"
    /\ HeaderAt(ProbedDoc) = 0

\* C34: when the highest version document is in the directory and cannot
\* be read, the resolver returns the draft path.
HighestUnreadable ==
    \E v \in VersionFiles(fs) : IsHighest(v) /\ ReadFile(fs, VersionPath(v)) = Unreadable
C34_UnreadableHighestResolvesToDraft ==
    (lastOp.op = "resolve" /\ HighestUnreadable) => lastOp.target = DraftPath
C34_Witness ==
    /\ lastOp.op = "resolve"
    /\ HighestUnreadable
    /\ ~Exists(fs, DraftPath)
    /\ lastOp.target = DraftPath

\* C32: an add that writes to a document that does not exist yet leaves
\* the draft template with its entries directly under the header: the
\* frontmatter with the patch increment of the highest version of the
\* directory (0.1.0 in a directory without version document), the date of
\* the day and an empty tag, then the title of that version, the
\* Unreleased header, the entries, and the placeholder comment.
TopVersion == CHOOSE v \in DirVersions : \A w \in DirVersions : NotBelow(v, w)
ExpectedDraftVersion ==
    IF DirVersions = {} THEN <<0, 1, 0>> ELSE Increment(TopVersion, "patch")
CreatesDocument == IsAdd /\ lastOp.wrote /\ lastOp.pre = NoFile
C32_MissingDocumentCreatedFromTemplate ==
    CreatesDocument =>
        /\ lastOp.target = DraftPath
        /\ Len(PostDoc) = 13 + lastOp.inserted
        /\ SubSeq(PostDoc, 1, 9) =
               << Line("delim", NoVer, "", <<>>, ""),
                  Line("version", ExpectedDraftVersion, "", <<>>, ""),
                  Line("date", NoVer, Today, <<>>, ""),
                  Line("tag", NoVer, " ", <<>>, ""),
                  Line("delim", NoVer, "", <<>>, ""),
                  Line("blank", NoVer, "", <<>>, ""),
                  Line("title", ExpectedDraftVersion, "", <<>>, ""),
                  Line("blank", NoVer, "", <<>>, ""),
                  Line("header", NoVer, "", <<>>, "") >>
        /\ \A i \in 10..(9 + lastOp.inserted) : PostDoc[i].k = "entry"
        /\ SubSeq(PostDoc, 10 + lastOp.inserted, Len(PostDoc)) =
               << Line("blank", NoVer, "", <<>>, ""),
                  Line("comment", NoVer, "", <<>>, ""),
                  Line("blank", NoVer, "", <<>>, ""),
                  Line("blank", NoVer, "", <<>>, "") >>
        /\ readdir(fs) = {} => PostDoc[2].ver = <<0, 1, 0>>
C32_Witness ==
    /\ CreatesDocument
    /\ readdir(fs) = {}
    /\ ops = 1
    /\ lastOp.inserted = 2
    /\ PostDoc[2].ver = <<0, 1, 0>>
C32_WitnessAboveReleased ==
    /\ CreatesDocument
    /\ DirVersions # {}
    /\ PostDoc[2].ver = Increment(TopVersion, "patch")

\* C33: decoding gives a mapping for every text.  A text whose first line
\* is not exactly --- gives the empty mapping.  Otherwise, of the lines
\* between the first line and the next --- line (or the end of the text),
\* those without colon and those that begin with the colon (empty key)
\* contribute nothing, and every other line gives the text before its
\* first colon, trimmed, as key and all the text after that colon,
\* further colons included, trimmed, as value; the last line of a key
\* decides its value.
Breaks(text) == {0, Len(text) + 1} \cup {i \in 1..Len(text) : text[i] = "\n"}
NthBreak(text, n) ==
    CHOOSE x \in Breaks(text) : Cardinality({y \in Breaks(text) : y < x}) = n - 1
LineCount(text) == Cardinality(Breaks(text)) - 1
TextLine(text, n) == SubSeq(text, NthBreak(text, n) + 1, NthBreak(text, n + 1) - 1)
Colon(line) == FirstIndex({i \in 1..Len(line) : line[i] = ":"})
Strip(s) ==
    LET solid == {i \in 1..Len(s) : s[i] # " "}
    IN  IF solid = {} THEN <<>>
        ELSE SubSeq(s, CHOOSE a \in solid : \A b \in solid : a <= b,
                       CHOOSE a \in solid : \A b \in solid : b <= a)
KeyOf(line) == Strip(SubSeq(line, 1, Colon(line) - 1))
ValueOf(line) == Strip(SubSeq(line, Colon(line) + 1, Len(line)))
BlockEnd(text) ==
    LET close == FirstIndex({i \in 2..LineCount(text) : TextLine(text, i) = <<"-", "-", "-">>})
    IN  IF close = 0 THEN LineCount(text) + 1 ELSE close
PairLines(text) ==
    {i \in 2..(BlockEnd(text) - 1) : Colon(TextLine(text, i)) > 1}
C33_DecodingNeverFails ==
    lastOp.op = "parseFrontmatter" =>
        /\ TextLine(lastOp.text, 1) # <<"-", "-", "-">> => DOMAIN lastOp.fm = {}
        /\ TextLine(lastOp.text, 1) = <<"-", "-", "-">> =>
               /\ DOMAIN lastOp.fm =
                      {KeyOf(TextLine(lastOp.text, i)) : i \in PairLines(lastOp.text)}
               /\ \A i \in PairLines(lastOp.text) :
                      (\A j \in PairLines(lastOp.text) :
                           KeyOf(TextLine(lastOp.text, j)) = KeyOf(TextLine(lastOp.text, i))
                               => j <= i)
                          => lastOp.fm[KeyOf(TextLine(lastOp.text, i))]
                                 = ValueOf(TextLine(lastOp.text, i))
C33_Witness ==
    /\ lastOp.op = "parseFrontmatter"
    /\ DOMAIN lastOp.fm = {<<"k">>}
    /\ lastOp.fm[<<"k">>] = <<":">>
    /\ BlockEnd(lastOp.text) = 4
    /\ TextLine(lastOp.text, 3) = <<"k">>

\* C35: a release cut leaves every closed (tagged) version document that
\* was in the directory before the cut in the directory and as it was,
\* also when the manifest version is below the versions of the directory.
Closed(doc) == \E i \in 2..(FrontmatterEnd(doc) - 1) : doc[i].k = "tag" /\ doc[i].s = " v"
C35_CutKeepsExistingVersionDocuments ==
    [][(lastOp'.op = "release" /\ ops' = ops + 1)
       => \A f \in readdir(fs) :
              Closed(fs.versions[f]) => (f \in readdir(fs') /\ fs'.versions[f] = fs.versions[f])]_vars

\* C36: the version of the document a cut writes is above the versions
\* of the documents all earlier cuts have written, whether the manifest
\* can be read or not and whether its update succeeds or fails.
C36_CutVersionsIncrease ==
    \A i, j \in 1..Len(lastOp.cuts) :
        i < j => SemverGt(lastOp.cuts[j], lastOp.cuts[i])

\* C37: an add leaves every tagged version document as it was; what it
\* writes is the draft, or the highest version document when there is no
\* draft and that document has no tag, and no other file changes.
Tagged(doc) ==
    \E i \in 2..(FrontmatterEnd(doc) - 1) : doc[i].k = "tag" /\ doc[i].s \notin {"", " "}
TopName(dir) ==
    \A g \in DOMAIN dir.versions : ~SemverGt(NumVersion(g), lastOp'.target.ver)
C37_AddWritesOpenDocumentOnly ==
    [][(lastOp'.op \in {"addCommits", "addCustom"} /\ ops' = ops + 1)
       => /\ readdir(fs') = readdir(fs)
          /\ \A f \in readdir(fs) : Tagged(fs.versions[f]) => fs'.versions[f] = fs.versions[f]
          /\ lastOp'.target.kind = "draft" => fs'.versions = fs.versions
          /\ lastOp'.target.kind = "version" =>
                 /\ fs'.draft = fs.draft
                 /\ fs.draft = NoFile
                 /\ FileName(lastOp'.target.ver) \in readdir(fs)
                 /\ ~Tagged(fs.versions[FileName(lastOp'.target.ver)])
                 /\ TopName(fs)
                 /\ \A f \in readdir(fs) :
                        f # FileName(lastOp'.target.ver) => fs'.versions[f] = fs.versions[f]]_vars
C37_Witness ==
    /\ IsAdd
    /\ lastOp.wrote
    /\ lastOp.target.kind = "draft"
    /\ \E f \in readdir(fs) : Tagged(fs.versions[f])
C37_WitnessVersionDocument ==
    /\ IsAdd
    /\ lastOp.wrote
    /\ lastOp.target.kind = "version"
    /\ Cardinality(readdir(fs)) > 1

\* C38: the add after a release cut, over the commits the add before the
\* cut has worked through, inserts every commit whose hash is not in the
\* document it resolves to, whatever the other documents hold; when the
\* hashes stand in tagged version documents only, every commit is
\* inserted again, into the draft the cut has started if there is one.
AfterCut == lastOp.op = "addCommits" /\ releases = 1
InUntagged(m) ==
    \E f \in readdir(fs) :
        /\ ~Tagged(fs.versions[f])
        /\ f # FileName(lastOp.target.ver)
        /\ HashIn(fs.versions[f], createMessageHash(m))
OnlyInClosed(m) ==
    /\ ~HashIn(lastOp.pre, createMessageHash(m))
    /\ ~InUntagged(m)
    /\ \E f \in readdir(fs) :
           Tagged(fs.versions[f]) /\ HashIn(fs.versions[f], createMessageHash(m))
C38_ClosedDocumentsNotConsulted ==
    AfterCut =>
        /\ lastOp.inserted = Len(AddedMessages)
        /\ lastOp.hadDraft => lastOp.target = DraftPath
        /\ \A i \in 1..Len(lastOp.commits) :
               OnlyInClosed(lastOp.commits[i])
                   => /\ HashIn(PostDoc, createMessageHash(lastOp.commits[i]))
                      /\ lastOp.wrote
        /\ (\A i \in 1..Len(lastOp.commits) : OnlyInClosed(lastOp.commits[i]))
               => lastOp.inserted = Len(lastOp.commits)
C38_Witness ==
    /\ AfterCut
    /\ lastOp.inserted = 2
    /\ lastOp.target = DraftPath
    /\ \A i \in 1..Len(lastOp.commits) : OnlyInClosed(lastOp.commits[i])
    /\ \E f \in readdir(fs) :
           /\ Tagged(fs.versions[f])
           /\ \A i \in 1..Len(lastOp.commits) :
                  HashIn(fs.versions[f], createMessageHash(lastOp.commits[i]))

\* C39: in the state an add over the commits of the time range leaves
\* behind, hasPendingCommits over the same commits answers false,
\* whatever the directory was before and whatever the polisher did.
C39_NothingPendingAfterAdd ==
    lastOp.op = "addCommits" => ~hasPendingCommits(fs, lastOp.log)
C39_Witness ==
    /\ lastOp.op = "addCommits"
    /\ lastOp.inserted = 2
    /\ lastOp.outcome.key
    /\ ~lastOp.outcome.err
    /\ lastOp.outcome.n = 1
    /\ ~hasPendingCommits(fs, lastOp.log)

\* C40: an add that writes to a document that was there before leaves its
\* frontmatter block as it was, line by line (version, date and tag
\* included), and an add that has nothing to insert leaves the directory
\* as it was: it writes no document and creates no draft.
C40_AddKeepsFrontmatter ==
    [][(lastOp'.op \in {"addCommits", "addCustom"} /\ ops' = ops + 1)
       => /\ lastOp'.inserted = 0 => (fs' = fs /\ ~lastOp'.wrote)
          /\ (lastOp'.inserted > 0 /\ Exists(fs, lastOp'.target))
                 => /\ Block(ReadFile(fs', lastOp'.target)) = Block(ReadFile(fs, lastOp'.target))
                    /\ parseFrontmatter(ReadFile(fs', lastOp'.target))
                           = parseFrontmatter(ReadFile(fs, lastOp'.target))]_vars
C40_Witness ==
    /\ IsAdd
    /\ lastOp.wrote
    /\ lastOp.pre # NoFile
    /\ Block(PostDoc) = Block(lastOp.pre)
    /\ HasLine(Block(PostDoc), DateLine(Earlier))
C40_WitnessNothingToInsert ==
    /\ IsAdd
    /\ lastOp.inserted = 0
    /\ ~Exists(fs, DraftPath)
    /\ lastOp.target = DraftPath
====
